---- MODULE Spec2Model ----
(***************************************************************************)
(* Karna WhatsApp conversation layer of VayuBots: the intent parser        *)
(* (handlers/whatsapp_parser.py), the conversation state store             *)
(* (handlers/whatsapp_state.py) and the dialogue router with its           *)
(* background draft worker (handlers/whatsapp_router.py).                  *)
(*                                                                         *)
(* Message texts are sequences of one-character strings, so that           *)
(* lower(), strip(), "kw in msg", startswith() and endswith() are          *)
(* computed on the characters as Python computes them.                     *)
(***************************************************************************)
EXTENDS Integers, Sequences, FiniteSets, Bags, TLC

(***************************************************************************)
(* Bounds of the model                                                     *)
(***************************************************************************)
\* number of post records the record store can list
NumPosts == 2
\* number of draft worker threads that may be alive at the same time
MaxInFlight == 2

Users == {"u1"}

\* Python's None, as a value of string-typed fields
NoneVal == "None"

(***************************************************************************)
(* Python string operations on character sequences                         *)
(***************************************************************************)
Upper == <<"A","B","C","D","E","F","G","H","I","J","K","L","M","N","O","P","Q","R","S","T","U","V","W","X","Y","Z">>
LowerOf == <<"a","b","c","d","e","f","g","h","i","j","k","l","m","n","o","p","q","r","s","t","u","v","w","x","y","z">>
Digits == <<"0","1","2","3","4","5","6","7","8","9">>

LowerChar(c) ==
    IF \E i \in 1..Len(Upper) : Upper[i] = c
    THEN LowerOf[CHOOSE i \in 1..Len(Upper) : Upper[i] = c]
    ELSE c

\* str.lower()
Lower(s) == [i \in 1..Len(s) |-> LowerChar(s[i])]

RECURSIVE LStrip(_)
LStrip(s) == IF s # << >> /\ Head(s) = " " THEN LStrip(Tail(s)) ELSE s

RECURSIVE RStrip(_)
RStrip(s) == IF s # << >> /\ s[Len(s)] = " " THEN RStrip(SubSeq(s, 1, Len(s) - 1)) ELSE s

\* str.strip()
Strip(s) == RStrip(LStrip(s))

\* kw in s
Contains(s, kw) ==
    \E i \in 1..(Len(s) - Len(kw) + 1) : SubSeq(s, i, i + Len(kw) - 1) = kw

\* s.startswith(p)
StartsWith(s, p) == Len(s) >= Len(p) /\ SubSeq(s, 1, Len(p)) = p

\* s.endswith(p)
EndsWith(s, p) == Len(s) >= Len(p) /\ SubSeq(s, Len(s) - Len(p) + 1, Len(s)) = p

IsDigit(c) == \E i \in 1..Len(Digits) : Digits[i] = c

DigitVal(c) == (CHOOSE i \in 1..Len(Digits) : Digits[i] = c) - 1

RECURSIVE DigitsToInt(_)
DigitsToInt(ds) ==
    IF ds = << >> THEN 0
    ELSE 10 * DigitsToInt(SubSeq(ds, 1, Len(ds) - 1)) + DigitVal(ds[Len(ds)])

\* re.search(r'\d+', s): the first maximal run of digits, or << >> when none
FirstDigitRun(s) ==
    IF \E i \in 1..Len(s) : IsDigit(s[i])
    THEN LET a == CHOOSE i \in 1..Len(s) :
                     IsDigit(s[i]) /\ \A j \in 1..(i - 1) : ~IsDigit(s[j])
             b == CHOOSE k \in a..Len(s) :
                     /\ \A j \in a..k : IsDigit(s[j])
                     /\ (k = Len(s) \/ ~IsDigit(s[k + 1]))
         IN SubSeq(s, a, b)
    ELSE << >>

\* s.replace(p, ""): every non-overlapping occurrence, left to right
RECURSIVE Remove(_, _)
Remove(s, p) ==
    IF s = << >> THEN << >>
    ELSE IF StartsWith(s, p) THEN Remove(SubSeq(s, Len(p) + 1, Len(s)), p)
    ELSE <<Head(s)>> \o Remove(Tail(s), p)

(***************************************************************************)
(* Tagged values for context entries that hold an int, a str or None       *)
(***************************************************************************)
PyInt(n) == [t |-> "int", v |-> n]
PyStr(s) == [t |-> "str", v |-> s]
PyNone == [t |-> "None"]
\* a str-or-None field of the state as a tagged value
PyVal(x) == IF x = NoneVal THEN PyNone ELSE PyStr(x)
\* Python truthiness of a tagged value (None and 0 are falsy; record
\* identifiers are never empty strings)
Truthy(x) == x.t # "None" /\ (x.t = "int" => x.v # 0)

\* dict.get(key, default)
Get(d, key, default) == IF key \in DOMAIN d THEN d[key] ELSE default

(***************************************************************************)
(* WhatsAppParser (handlers/whatsapp_parser.py)                            *)
(***************************************************************************)
_extract_modifications(message) ==
    (IF Contains(message, <<"i","m","a","g","e">>) \/ Contains(message, <<"p","h","o","t","o">>) THEN {"image"} ELSE {})
    \cup (IF \E kw \in {<<"c","o","n","t","e","n","t">>, <<"c","a","p","t","i","o","n">>, <<"t","e","x","t">>} : Contains(message, kw)
          THEN {"content"} ELSE {})
    \cup (IF Contains(message, <<"h","a","s","h","t","a","g">>) THEN {"hashtags"} ELSE {})

_extract_idea_text(message) ==
    Strip(Remove(Remove(Remove(Remove(Remove(message,
        <<"t","a","k","e"," ","t","h","i","s"," ","i","d","e","a">>), <<"c","r","e","a","t","e"," ","p","o","s","t">>), <<"m","a","k","e"," ","a"," ","p","o","s","t">>), <<"p","o","s","t"," ","a","b","o","u","t">>), <<"i","d","e","a"," ","f","o","r">>))

\* the day token _parse_schedule_time finds, "None" when the message has none
DateToken(message) ==
    IF Contains(message, <<"t","o","m","o","r","r","o","w">>) THEN "tomorrow"
    ELSE IF Contains(message, <<"m","o","n","d","a","y">>) THEN "monday"
    ELSE IF Contains(message, <<"t","u","e","s","d","a","y">>) THEN "tuesday"
    ELSE IF Contains(message, <<"w","e","d","n","e","s","d","a","y">>) THEN "wednesday"
    ELSE IF Contains(message, <<"t","h","u","r","s","d","a","y">>) THEN "thursday"
    ELSE IF Contains(message, <<"f","r","i","d","a","y">>) THEN "friday"
    ELSE IF Contains(message, <<"s","a","t","u","r","d","a","y">>) THEN "saturday"
    ELSE IF Contains(message, <<"s","u","n","d","a","y">>) THEN "sunday"
    ELSE NoneVal

\* _parse_schedule_time(message) (lines 125-150): None without a day token;
\* otherwise the target day with the time of day of
\* re.search(r'(\d{1,2})(?::(\d{2}))?\s*(am|pm)?', message), 09:00 when the
\* message has no digit; datetime.replace raises ValueError for an hour above
\* 23 or a minute above 59
_parse_schedule_time(message) ==
    LET day == DateToken(message)
        At(hour, minute) == [t |-> "datetime", day |-> day, hour |-> hour, minute |-> minute]
    IN IF day = NoneVal THEN PyNone
       ELSE IF ~\E i \in 1..Len(message) : IsDigit(message[i]) THEN At(9, 0)
       ELSE LET a == CHOOSE i \in 1..Len(message) :
                        IsDigit(message[i]) /\ \A j \in 1..(i - 1) : ~IsDigit(message[j])
                \* group 1: one or two digits
                b == IF a < Len(message) /\ IsDigit(message[a + 1]) THEN a + 1 ELSE a
                \* group 2: a colon and two digits
                has_minute == /\ b + 3 <= Len(message)
                              /\ message[b + 1] = ":"
                              /\ IsDigit(message[b + 2]) /\ IsDigit(message[b + 3])
                c == IF has_minute THEN b + 3 ELSE b
                \* group 3: am or pm after optional whitespace
                rest == LStrip(SubSeq(message, c + 1, Len(message)))
                period == IF StartsWith(rest, <<"a","m">>) THEN "am"
                          ELSE IF StartsWith(rest, <<"p","m">>) THEN "pm" ELSE NoneVal
                hour0 == DigitsToInt(SubSeq(message, a, b))
                minute == IF has_minute THEN DigitsToInt(SubSeq(message, b + 2, b + 3)) ELSE 0
                hour == IF period = "pm" /\ hour0 < 12 THEN hour0 + 12
                        ELSE IF period = "am" /\ hour0 = 12 THEN 0
                        ELSE hour0
            IN IF hour > 23 \/ minute > 59 THEN [t |-> "ValueError"] ELSE At(hour, minute)

_handle_selection(last_action, state, index, context) ==
    IF last_action = "show_posts" /\ index < Len(Get(state, "post_options", << >>))
    THEN [action |-> "post_selected",
          context |-> ("post_id" :> PyStr(Get(state, "post_options", << >>)[index + 1])) @@ context]
    ELSE IF last_action = "show_ideas" /\ index < Len(Get(state, "idea_options", << >>))
    THEN [action |-> "idea_selected",
          context |-> ("idea_id" :> PyStr(Get(state, "idea_options", << >>)[index + 1])) @@ context]
    ELSE [action |-> NoneVal, context |-> context]

parse_message(message, client_id, state) ==
    LET msg == Strip(Lower(message))
        context == ("client_id" :> PyStr(client_id))
        last_action == Get(state, "last_action", NoneVal)
    IN
    IF msg \in {<<"h","i">>, <<"h","e","l","l","o">>, <<"h","e","y">>, <<"s","t","a","r","t">>, <<"m","e","n","u">>}
    THEN [action |-> "greeting", context |-> context]
    ELSE IF msg \in {<<"d","o","n","e">>, <<"s","k","i","p">>, <<"n","o">>, <<"t","h","a","t","'","s"," ","a","l","l">>}
    THEN [action |-> "done", context |-> context]
    ELSE IF msg \in {<<"1">>, <<"s","o","c","i","a","l"," ","m","e","d","i","a">>, <<"k","a","r","n","a">>}
    THEN [action |-> "social_media_menu", context |-> context]
    ELSE IF \E kw \in {<<"s","h","o","w">>, <<"s","e","e"," ","p","o","s","t","s">>, <<"s","h","o","w"," ","m","e">>, <<"p","e","n","d","i","n","g"," ","p","o","s","t","s">>} : Contains(msg, kw)
    THEN [action |-> "show_posts", context |-> context]
    ELSE IF \E kw \in {<<"a","l","l">>, <<"s","h","o","w"," ","a","l","l">>, <<"a","l","l"," ","p","o","s","t","s">>} : Contains(msg, kw)
    THEN [action |-> "show_all_posts", context |-> context]
    ELSE IF \E kw \in {<<"n","e","w">>, <<"c","r","e","a","t","e"," ","n","e","w">>, <<"n","e","w"," ","i","d","e","a">>, <<"g","e","n","e","r","a","t","e">>} : Contains(msg, kw)
    THEN [action |-> "curate_ideas", context |-> context]
    ELSE IF \E kw \in {<<"u","p","d","a","t","e">>, <<"e","d","i","t">>, <<"c","h","a","n","g","e">>, <<"m","o","d","i","f","y">>} : Contains(msg, kw)
    THEN [action |-> "modify_post",
          context |-> ("post_id" :> PyVal(Get(state, "last_post_id", NoneVal)))
                      @@ ("modifications" :> _extract_modifications(msg)) @@ context]
    ELSE IF StartsWith(msg, <<"a","p","p","r","o","v","e">>) \/ msg = <<"p","u","b","l","i","s","h">>
    THEN IF _parse_schedule_time(msg).t = "ValueError"
         THEN \* the exception leaves parse_message
              [action |-> "ValueError", context |-> context]
         ELSE [action |-> "approve_post",
               context |-> ("post_id" :> (IF FirstDigitRun(msg) # << >>
                                          THEN PyInt(DigitsToInt(FirstDigitRun(msg)))
                                          ELSE PyNone))
                           @@ ("schedule_time" :> _parse_schedule_time(msg)) @@ context]
    ELSE IF msg \in {<<"1">>, <<"2">>, <<"3">>, <<"f","i","r","s","t">>, <<"s","e","c","o","n","d">>, <<"t","h","i","r","d">>}
    THEN _handle_selection(last_action, state,
            IF StartsWith(msg, <<"1">>) \/ Contains(msg, <<"f","i","r","s","t">>) THEN 0
            ELSE IF StartsWith(msg, <<"2">>) \/ Contains(msg, <<"s","e","c","o","n","d">>) THEN 1
            ELSE 2,
            context)
    ELSE IF Contains(msg, <<"a","n","a","l","y","t","i","c","s">>)
    THEN [action |-> "analytics", context |-> context]
    ELSE IF \E kw \in {<<"s","u","m","m","a","r","y">>, <<"r","e","p","o","r","t">>, <<"p","e","r","f","o","r","m","a","n","c","e">>} : Contains(msg, kw)
    THEN [action |-> "summary", context |-> context]
    ELSE IF msg \in {<<"s","k","i","p">>, <<"n","o","n","e">>}
    THEN [action |-> "skip", context |-> context]
    ELSE IF last_action \in {"awaiting_idea", "awaiting_image"}
    THEN \* the nested test for "done"/"skip"/"menu" (lines 83-84) cannot hold
         \* here: these texts are matched by the first two rules
         IF last_action = "awaiting_idea"
         THEN [action |-> "idea_text",
               context |-> ("idea_text" :> PyStr(Strip(message))) @@ context]
         ELSE [action |-> "image_note",
               context |-> ("extra_note" :> PyStr(Strip(message))) @@ context]
    ELSE IF \E kw \in {<<"p","o","s","t"," ","a","b","o","u","t">>, <<"i","d","e","a">>, <<"c","r","e","a","t","e"," ","p","o","s","t">>, <<"m","a","k","e"," ","a"," ","p","o","s","t">>} : Contains(msg, kw)
    THEN [action |-> "create_from_idea",
          context |-> ("idea" :> PyStr(_extract_idea_text(msg)))
                      @@ ("image_url" :> PyVal(Get(state, "last_image_url", NoneVal))) @@ context]
    ELSE [action |-> NoneVal, context |-> context]

(***************************************************************************)
(* Inputs                                                                  *)
(***************************************************************************)
\* message bodies a user sends
Texts == {
    <<" ","H","i">>, <<"n","e","w">>, <<"d","o","n","e">>, <<"s","h","o","w">>, <<"2">>, <<"a","p","p","r","o","v","e"," ","2">>, <<"p","u","b","l","i","s","h">>, <<"u","p","d","a","t","e">>,
    <<"B","i","g"," ","s","a","l","e">>, <<"h","t","t","p",":","/","/","x","/","a",".","j","p","g">> }

\* media URL of a message, None when the message has no attachment
Images == {NoneVal, "img1"}

\* karna_flow.list_top_posts(limit=3), list_all_pending_posts(limit=50)
TopLimit == 3
AllLimit == 50

\* record identifiers of the Posts table
RecIds == <<"rec1", "rec2", "rec3", "rec4", "rec5">>
PostIds == {RecIds[i] : i \in 1..NumPosts}

RECURSIVE SeqsUpTo(_, _)
SeqsUpTo(S, n) ==
    IF n = 0 THEN {<< >>}
    ELSE SeqsUpTo(S, n - 1) \cup
         {Append(s, x) : s \in {q \in SeqsUpTo(S, n - 1) : Len(q) = n - 1}, x \in S}

\* results of get_posts_for_client(client_id, status, limit): at most limit
\* distinct records, in any order of Impact Score; [] when the fetch fails
Listings(limit) ==
    {s \in SeqsUpTo(PostIds, IF limit < NumPosts THEN limit ELSE NumPosts) :
        \A i, j \in 1..Len(s) : i # j => s[i] # s[j]}

\* what the LLM intent fallback yields: the action of the JSON it returned
\* ("unknown" when the call or json.loads fails or the key is missing) and
\* the optional idea
GptAnswers ==
    {[action |-> a, idea |-> NoneVal] :
        a \in {"show_posts", "curate_ideas", "analytics", "approve_post", "unknown"}}
    \cup {[action |-> "create_post", idea |-> i] : i \in {NoneVal, "gpt"}}
NoGpt == [action |-> NoneVal, idea |-> NoneVal]
\* the idea text of an LLM answer that carries one
GptIdea == <<"g","p","t"," ","i","d","e","a">>

(***************************************************************************)
(* State                                                                   *)
(***************************************************************************)
VARIABLES
    STATE_CACHE,          \* whatsapp_state.STATE: user -> conversation state dict
    PENDING_IDEAS,  \* whatsapp_router.PENDING_IDEAS: user -> pending draft
    threads,        \* live _async_create_post threads, in start order
    last            \* the step taken last: a handled message or a worker
                    \* run, its user, the text it sent to the user and the
                    \* call that raised in it


\* a dict d with key k set to v
Put(d, k, v) == (k :> v) @@ d

\* a dict d without key k
Del(d, k) == [x \in DOMAIN d \ {k} |-> d[x]]

(***************************************************************************)
(* Conversation state store (handlers/whatsapp_state.py)                   *)
(***************************************************************************)
\* the dict get_state returns for a user whose entry is in the cache, or the
\* default state it creates
get_state(cache, client_id) ==
    IF client_id \in DOMAIN cache /\ DOMAIN cache[client_id] # {}
    THEN cache[client_id]
    ELSE ("last_action" :> NoneVal)

\* the cache after get_state
get_state_cache(cache, client_id) == Put(cache, client_id, get_state(cache, client_id))

\* state_data leaving the data out
state_data_action_only(action, data) == ("last_action" :> action)

\* the dict update_state builds: {"last_action": action, **data}
state_data(action, data) == data @@ ("last_action" :> action)

\* update_state merging into the previous state instead of replacing it
update_state_merge(cache, client_id, action, data) ==
    Put(cache, client_id, state_data(action, data) @@ get_state(cache, client_id))

\* the cache after update_state(client_id, action, data)
update_state(cache, client_id, action, data) ==
    Put(cache, client_id, state_data(action, data))

NoData == << >>

(***************************************************************************)
(* Dialogue router (handlers/whatsapp_router.py)                           *)
(***************************************************************************)
\* one way a call of handle_message can end: the cache and the pending
\* drafts it leaves, the reply it returns, the mutating collaborator calls
\* it made and the worker threads it started
Outcome(cache, pending, reply, calls, started) ==
    [cache |-> cache, pending |-> pending, reply |-> reply,
     calls |-> calls, started |-> started, raised |-> NoneVal]

\* the exception leaving the handler: no reply
Failed_propagates(cache, pending, calls, raised) ==
    [cache |-> cache, pending |-> pending, reply |-> NoneVal,
     calls |-> calls, started |-> {}, raised |-> raised]

\* the handler's outer except (lines 328-331): the exception raised by
\* `raised` ends the call with the generic reply
Failed(cache, pending, calls, raised) ==
    [cache |-> cache, pending |-> pending, reply |-> "went_wrong",
     calls |-> calls, started |-> {}, raised |-> raised]

\* a mutating call to karna_flow; ok is FALSE when the call raised
Call(op, post_id, arg, ok) == [op |-> op, post_id |-> post_id, arg |-> arg, ok |-> ok]

\* the arguments of threading.Thread(target=_async_create_post, args=...)
ThreadArgs(client_id, idea_text, image_url, user_id) ==
    [client_id |-> client_id, idea_text |-> idea_text,
     image_url |-> image_url, user_id |-> user_id]

\* lines 165-178: greeting, social_media_menu or the text "menu"
route_menu(cache, pending, user_id) ==
    {Outcome(update_state(cache, user_id, "menu", NoData), pending, "menu", << >>, {})}

\* _fmt_posts_list numbering the lines from zero
_fmt_posts_list_from_zero(records) ==
    [i \in 1..Len(records) |-> [number |-> i - 1, id |-> records[i]]]

\* _fmt_posts_list(records) (lines 31-40): one line per record, numbered by
\* enumerate(records, start=1); a line is the number and the record it
\* previews
_fmt_posts_list(records) ==
    [i \in 1..Len(records) |-> [number |-> i, id |-> records[i]]]

\* lines 180-192: show_posts (limit 3) and show_all_posts (limit 50); the
\* outcome of a listing carries the lines of the reply (listed)
route_show(cache, pending, user_id, limit, reply) ==
    {IF posts = << >>
     THEN Outcome(cache, pending, "no_posts", << >>, {})
     ELSE [cache |-> update_state(cache, user_id, "show_posts", ("post_options" :> posts)),
           pending |-> pending, reply |-> reply, calls |-> << >>, started |-> {},
           raised |-> NoneVal, listed |-> _fmt_posts_list(posts)] : posts \in Listings(limit)}

\* lines 194-199: post_selected
route_selected(cache, pending, user_id, context) ==
    LET post_id == Get(context, "post_id", PyNone)
    IN IF ~Truthy(post_id)
       THEN {Outcome(cache, pending, "bad_selection", << >>, {})}
       ELSE {Outcome(update_state(cache, user_id, "post_selected", ("last_post_id" :> post_id.v)),
                     pending, "selected", << >>, {})}

\* karna_flow.approve_and_publish_post (karna_flow.py lines 149-160): the
\* fields update_post is given for the post
approve_and_publish_post(schedule_time) ==
    ("Approval Status" :> "Approved")
    @@ (IF schedule_time.t # "None" THEN ("Scheduled At" :> schedule_time) ELSE << >>)

\* line 220: approve_and_publish_post(client_id=client_id, post_id=post_id);
\* schedule_time is not passed and keeps its default, None
ApproveCall(post_id, client_id, ok) ==
    [op |-> "approve_and_publish_post", post_id |-> post_id, arg |-> client_id,
     ok |-> ok, fields |-> approve_and_publish_post(PyNone)]

\* route_approve without the range test: an index outside the options is
\* treated like a missing one
route_approve_no_range(cache, pending, state, user_id, client_id, context) ==
    LET selection == Get(context, "post_id", PyNone)
        options == Get(state, "post_options", << >>)
        in_range == selection.t = "int" /\ 1 <= selection.v /\ selection.v <= Len(options)
        post_id == IF in_range THEN options[selection.v]
                   ELSE Get(state, "last_post_id", NoneVal)
    IN IF post_id = NoneVal
       THEN {Outcome(cache, pending, "no_post_selected", << >>, {})}
       ELSE {Outcome(update_state(cache, user_id, "menu", NoData), pending, "approved",
                     <<ApproveCall(post_id, client_id, TRUE)>>, {}),
             Outcome(cache, pending, "publish_failed",
                     <<ApproveCall(post_id, client_id, FALSE)>>, {})}

\* route_approve indexing the options from zero
route_approve_off_by_one(cache, pending, state, user_id, client_id, context) ==
    LET selection == Get(context, "post_id", PyNone)
        options == Get(state, "post_options", << >>)
        in_range == selection.t = "int" /\ 1 <= selection.v /\ selection.v <= Len(options)
        post_id == IF selection.t = "int"
                   THEN (IF in_range /\ selection.v > 1 THEN options[selection.v - 1] ELSE NoneVal)
                   ELSE IF Truthy(selection) THEN selection.v
                   ELSE Get(state, "last_post_id", NoneVal)
    IN IF selection.t = "int" /\ ~in_range
       THEN {Outcome(cache, pending, "no_match", << >>, {})}
       ELSE IF post_id = NoneVal
       THEN {Outcome(cache, pending, "no_post_selected", << >>, {})}
       ELSE {Outcome(update_state(cache, user_id, "menu", NoData), pending, "approved",
                     <<ApproveCall(post_id, client_id, TRUE)>>, {}),
             Outcome(cache, pending, "publish_failed",
                     <<ApproveCall(post_id, client_id, FALSE)>>, {})}

\* lines 203-225: approve_post
route_approve(cache, pending, state, user_id, client_id, context) ==
    LET selection == Get(context, "post_id", PyNone)
        options == Get(state, "post_options", << >>)
        in_range == selection.t = "int" /\ 1 <= selection.v /\ selection.v <= Len(options)
        post_id == IF selection.t = "int" THEN (IF in_range THEN options[selection.v] ELSE NoneVal)
                   ELSE IF Truthy(selection) THEN selection.v
                   ELSE Get(state, "last_post_id", NoneVal)
    IN IF selection.t = "int" /\ ~in_range
       THEN {Outcome(cache, pending, "no_match", << >>, {})}
       ELSE IF post_id = NoneVal
       THEN {Outcome(cache, pending, "no_post_selected", << >>, {})}
       ELSE {Outcome(update_state(cache, user_id, "menu", NoData), pending, "approved",
                     <<ApproveCall(post_id, client_id, TRUE)>>, {}),
             Outcome(cache, pending, "publish_failed",
                     <<ApproveCall(post_id, client_id, FALSE)>>, {})}

\* lines 227-232: modify_post
route_modify(cache, pending, state, user_id, context) ==
    LET ctx_id == Get(context, "post_id", PyNone)
        post_id == IF Truthy(ctx_id) THEN ctx_id.v ELSE Get(state, "last_post_id", NoneVal)
    IN {Outcome(update_state(cache, user_id, "update_pending",
                    ("last_post_id" :> post_id)
                    @@ ("expected_mods" :> Get(context, "modifications", {}))),
                pending, "send_update", << >>, {})}

\* lines 234-262: the message that follows modify_post
route_update_pending(cache, pending, state, user_id, text, text_clean) ==
    LET post_id == Get(state, "last_post_id", NoneVal)
        is_image == Contains(text_clean, <<"h","t","t","p">>)
                    /\ (EndsWith(text_clean, <<".","j","p","g">>) \/ EndsWith(text_clean, <<".","p","n","g">>))
        op == IF is_image THEN "update_post_image_url" ELSE "update_post_caption"
        arg == IF is_image THEN Strip(text) ELSE text
        after == update_state(cache, user_id, "post_selected", ("last_post_id" :> post_id))
    IN IF post_id = NoneVal
       THEN {Outcome(cache, pending, "no_post_selected", << >>, {})}
       ELSE {\* the update raised: caught by the handler's outer except
             Failed(cache, pending, <<Call(op, post_id, arg, FALSE)>>, op),
             \* updated, preview fetched
             Outcome(after, pending, IF is_image THEN "image_preview" ELSE "caption_preview",
                     <<Call(op, post_id, arg, TRUE)>>, {}),
             \* updated, get_post_by_id raised
             Outcome(after, pending, IF is_image THEN "image_updated" ELSE "caption_updated",
                     <<Call(op, post_id, arg, TRUE)>>, {})}

\* lines 264-273: curate_ideas
route_curate(cache, pending, user_id) ==
    {Outcome(update_state(cache, user_id, "awaiting_idea", ("step" :> "awaiting_idea")),
             pending, "ask_idea", << >>, {})}

\* route_idea keeping the lower-cased text_clean instead of the text
route_idea_lower(cache, pending, user_id, text) ==
    {Outcome(update_state(cache, user_id, "awaiting_image", NoData),
             Put(pending, user_id, ("idea_text" :> Lower(Strip(text)))),
             "got_idea", << >>, {})}

\* lines 275-285: the idea text
route_idea(cache, pending, user_id, text) ==
    {Outcome(update_state(cache, user_id, "awaiting_image", NoData),
             Put(pending, user_id, ("idea_text" :> Strip(text))),
             "got_idea", << >>, {})}

\* lines 287-315: "done" or an image while awaiting_image; the empty set
\* when neither holds and control falls through to the default reply
route_image(cache, pending, user_id, client_id, text_clean, image_url) ==
    IF text_clean # <<"d","o","n","e">> /\ image_url = NoneVal
    THEN {}
    ELSE IF user_id \notin DOMAIN pending
    THEN \* pending is None: pending.get raises, caught by the outer except
         {Failed(cache, pending, << >>, "pending.get")}
    ELSE {Outcome(update_state(cache, user_id, "curating", NoData),
                  Del(pending, user_id),
                  IF text_clean = <<"d","o","n","e">> THEN "creating" ELSE "creating_with_image",
                  << >>,
                  {ThreadArgs(client_id, Get(pending[user_id], "idea_text", << >>),
                              IF text_clean = <<"d","o","n","e">> THEN NoneVal ELSE image_url,
                              user_id)})}

\* lines 321-323: skip / none
route_skip(cache, pending, user_id) ==
    {Outcome(update_state(cache, user_id, "menu", NoData), pending, "back_to_menu", << >>, {})}

\* the if/elif chain of lines 165-326 for the resolved action
route(cache, pending, state, user_id, client_id, text, text_clean, image_url, action, context) ==
    IF action \in {"greeting", "social_media_menu"} \/ text_clean = <<"m","e","n","u">>
    THEN route_menu(cache, pending, user_id)
    ELSE IF action = "show_posts"
    THEN route_show(cache, pending, user_id, TopLimit, "top_posts")
    ELSE IF action = "show_all_posts"
    THEN route_show(cache, pending, user_id, AllLimit, "all_posts")
    ELSE IF action = "post_selected"
    THEN route_selected(cache, pending, user_id, context)
    ELSE IF action = "approve_post"
    THEN route_approve(cache, pending, state, user_id, client_id, context)
    ELSE IF action = "modify_post"
    THEN route_modify(cache, pending, state, user_id, context)
    ELSE IF Get(state, "last_action", NoneVal) = "update_pending"
    THEN route_update_pending(cache, pending, state, user_id, text, text_clean)
    ELSE IF action = "curate_ideas"
    THEN route_curate(cache, pending, user_id)
    ELSE IF Get(state, "last_action", NoneVal) = "awaiting_idea"
            /\ text_clean \notin {<<"s","k","i","p">>, <<"m","e","n","u">>}
    THEN route_idea(cache, pending, user_id, text)
    ELSE IF Get(state, "last_action", NoneVal) = "awaiting_image"
            /\ route_image(cache, pending, user_id, client_id, text_clean, image_url) # {}
    THEN route_image(cache, pending, user_id, client_id, text_clean, image_url)
    ELSE IF Get(state, "last_action", NoneVal) # "awaiting_image" /\ action = "analytics"
    THEN {Outcome(cache, pending, "analytics", << >>, {})}
    ELSE IF Get(state, "last_action", NoneVal) # "awaiting_image"
            /\ text_clean \in {<<"s","k","i","p">>, <<"n","o","n","e">>}
    THEN route_skip(cache, pending, user_id)
    ELSE {Outcome(cache, pending, "not_sure", << >>, {})}

\* lines 132-159: the action of the LLM fallback replaces a missing one
resolve_action(action, gpt) ==
    IF action = NoneVal \/ action = "unknown" THEN gpt.action ELSE action

\* lines 155-156: a create_post answer that carries an idea replaces the text
resolve_text(action, gpt, text) ==
    IF (action = NoneVal \/ action = "unknown") /\ gpt.action = "create_post" /\ gpt.idea # NoneVal
    THEN GptIdea ELSE text

\* every way handle_message(user_id, text, image_url) can end when the LLM
\* fallback, if asked, gives one of gpt_answers, for every outcome of the
\* other collaborators it calls
handle_answered(cache0, pending, user_id, text, image_url, gpt_answers) ==
    LET state == get_state(cache0, user_id)
        cache1 == get_state_cache(cache0, user_id)
        client_id == user_id
        text_clean == Lower(Strip(text))
        parsed == parse_message(text_clean, client_id, state)
        context == (IF image_url # NoneVal THEN ("image_url" :> PyStr(image_url)) ELSE << >>)
                   @@ parsed.context
        cache2 == IF image_url # NoneVal
                  THEN update_state(cache1, user_id, Get(state, "last_action", "menu"),
                                    ("last_image_url" :> image_url))
                  ELSE cache1
        answers == IF parsed.action = NoneVal \/ parsed.action = "unknown"
                   THEN gpt_answers ELSE {NoGpt}
    IN  \* get_client_config raised (line 120): caught by the outer except
        {Failed(cache1, pending, << >>, "get_client_config")}
        \cup
        IF parsed.action = "ValueError"
        THEN \* parse_message raised (line 126): caught by the outer except
             {Failed(cache1, pending, << >>, "parse_message")}
        ELSE
        UNION {route(cache2, pending, state, user_id, client_id,
                     resolve_text(parsed.action, gpt, text), text_clean, image_url,
                     resolve_action(parsed.action, gpt), context) : gpt \in answers}

\* every way handle_message(user_id, text, image_url) can end, for every
\* outcome of the collaborators it calls
handle_message(cache0, pending, user_id, text, image_url) ==
    handle_answered(cache0, pending, user_id, text, image_url, GptAnswers)

(***************************************************************************)
(* Background worker (_async_create_post, lines 46-106)                    *)
(***************************************************************************)
\* what karna_flow.submit_client_input and the normalisation of lines 57-72
\* yield: "raise" when the flow raises, "not_dict" when the post object is
\* no dict, otherwise the id of the post dict ("[Unknown ID]" when it has
\* none)
DraftResults == {"raise", "not_dict", "[Unknown ID]"} \cup PostIds

\* _async_create_post without the update_state of line 84
_async_create_post_no_state(cache, user_id) ==
    UNION {
      IF result = "raise"
      THEN {[cache |-> cache, sent |-> NoneVal, raised |-> "submit_client_input",
             post_id |-> NoneVal]}
      ELSE LET msg_text == IF result = "not_dict" THEN "unexpected_result" ELSE "draft_created"
               post_id == IF result = "not_dict" THEN NoneVal ELSE result
           IN {[cache |-> cache, sent |-> msg_text, raised |-> NoneVal, post_id |-> post_id],
               [cache |-> cache, sent |-> NoneVal, raised |-> "messages.create",
                post_id |-> post_id]}
      : result \in DraftResults }

\* every way the worker can end: the cache it leaves, the message it
\* pushes to the user ("None" when it pushes none), the call that raised and
\* the post.get("id", "[Unknown ID]") of the post it got ("None" without post)
_async_create_post(cache, user_id) ==
    UNION {
      IF result = "raise"
      THEN \* caught by the except of line 104, which only logs
           {[cache |-> cache, sent |-> NoneVal, raised |-> "submit_client_input",
             post_id |-> NoneVal]}
      ELSE LET cache1 == IF result = "not_dict" THEN cache
                         ELSE update_state(cache, user_id, "post_preview",
                                           ("last_post_id" :> result))
               msg_text == IF result = "not_dict" THEN "unexpected_result" ELSE "draft_created"
               post_id == IF result = "not_dict" THEN NoneVal ELSE result
           IN {\* twilio_client.messages.create returned
               [cache |-> cache1, sent |-> msg_text, raised |-> NoneVal, post_id |-> post_id],
               \* it raised: caught by the except of line 104
               [cache |-> cache1, sent |-> NoneVal, raised |-> "messages.create",
                post_id |-> post_id]}
      : result \in DraftResults }
(***************************************************************************)
(* Session store (flows/session.py)                                        *)
(***************************************************************************)
\* session.py line 20 and whatsapp_state.py line 12: 15 * 60 seconds
SESSION_TIMEOUT == 900

\* the seconds of a day: timedelta.seconds is the time elapsed without its
\* whole days
DaySeconds == 24 * 60 * 60

\* background save/delete threads alive at one time
MaxBg == 2

\* SESSIONS: user -> session dict.  The timestamp field holds the time elapsed
\*   since the entry was written (now - session["timestamp"], in seconds).
\* SESSION_DB: the rows of the Sessions table, in table order.
\* bg: the live _save_to_airtable / _delete_from_airtable threads.
\* slast: what the last step of the session specification did: the reply of
\*   the router, where get_session took the session from, the reply of the
\*   Karna handler when the router called it.
VARIABLES SESSIONS, SESSION_DB, bg, slast

sessvars == <<SESSIONS, SESSION_DB, bg, slast>>

\* STATE_DB: the rows of the WhatsAppState table, in table order.
\* req: where the request worker is in update_state (whatsapp_state.py lines
\*   46-80): the call it is about to make, the client and the safe_data of
\*   the call, the record the list found.
VARIABLES STATE_DB, req

storevars == <<STATE_DB, req>>

\* hs: the handle_message calls in progress in the request threads, for the
\*   specification that follows the awaiting_image branch line by line.
\* web: the webhook request in progress (server/main.py lines 47-86).
\* POSTS: the Posts table; platform: how often each post was published to
\*   its platform; sweeps: the publishing sweeps in progress.
\* JOBS: the Jobs table; runs: the job wrappers in progress.
VARIABLES hs, web, POSTS, platform, sweeps, JOBS, runs

karnavars == <<STATE_CACHE, PENDING_IDEAS, threads, last>>

racevars == <<hs>>

webvars == <<web>>

pubvars == <<POSTS, platform, sweeps>>

jobvars == <<JOBS, runs>>

vars == <<STATE_CACHE, PENDING_IDEAS, threads, last, SESSIONS, SESSION_DB, bg, slast,
          STATE_DB, req, hs, web, POSTS, platform, sweeps, JOBS, runs>>

\* a session dict
Session(agent, elapsed) == ("active_agent" :> agent) @@ ("timestamp" :> elapsed)

\* the timeout test with < in place of <=
within_timeout_strict(elapsed) == (elapsed % DaySeconds) < SESSION_TIMEOUT

\* (now - session["timestamp"]).seconds <= SESSION_TIMEOUT (session.py line
\* 33, whatsapp_state.py line 25)
within_timeout(elapsed) == (elapsed % DaySeconds) <= SESSION_TIMEOUT

\* json.dumps({k: v for k, v in session.items() if k != "timestamp"})
SessionJSON(session) == [k \in DOMAIN session \ {"timestamp"} |-> session[k]]

\* the list without its filter: the records of every user
list_records_any(db, user_id) == db

\* airtable_client.list(BASE_ID, TABLE, filterByFormula="{UserID}='u'")
list_records(db, user_id) == SelectSeq(db, LAMBDA rec : rec.UserID = user_id)

\* recs["records"][0]["id"] when the list found records, 0 when it found none
first_record(db, user_id) ==
    IF list_records(db, user_id) = << >> THEN 0 ELSE list_records(db, user_id)[1].id

\* _save_to_airtable lines 88-92: airtable_client.update of the record found
\* (rec_id), airtable_client.create when none was found (rec_id = 0)
save_row(db, rec_id, payload, new_id) ==
    IF rec_id = 0
    THEN Append(db, [id |-> new_id, UserID |-> payload.UserID,
                     SessionJSON |-> payload.SessionJSON])
    ELSE [i \in 1..Len(db) |->
             IF db[i].id = rec_id
             THEN [id |-> rec_id, UserID |-> payload.UserID,
                   SessionJSON |-> payload.SessionJSON]
             ELSE db[i]]

\* _delete_from_airtable line 103: airtable_client.delete of the record found
delete_row(db, rec_id) == SelectSeq(db, LAMBDA rec : rec.id # rec_id)

\* outcomes of the durable lookup of get_session
Lookups == {"ok", "raise"}

\* get_session without its durable lookup
get_session_no_restore(sessions, db, user_id, lookup) ==
    IF user_id \in DOMAIN sessions /\ within_timeout(sessions[user_id]["timestamp"])
    THEN [sessions |-> sessions, session |-> sessions[user_id], source |-> "cache"]
    ELSE [sessions |-> Put(sessions, user_id, Session(NoneVal, 0)),
          session |-> Session(NoneVal, 0), source |-> "new"]

\* get_session that falls back to the cached entry, however old, when the
\* durable lookup raises
get_session_stale(sessions, db, user_id, lookup) ==
    IF user_id \in DOMAIN sessions
       /\ (within_timeout(sessions[user_id]["timestamp"]) \/ lookup = "raise")
    THEN [sessions |-> sessions, session |-> sessions[user_id], source |-> "cache"]
    ELSE IF lookup = "ok" /\ list_records(db, user_id) # << >>
    THEN LET session_data == ("timestamp" :> 0) @@ list_records(db, user_id)[1].SessionJSON
         IN [sessions |-> Put(sessions, user_id, session_data),
             session |-> session_data, source |-> "durable"]
    ELSE [sessions |-> Put(sessions, user_id, Session(NoneVal, 0)),
          session |-> Session(NoneVal, 0), source |-> "new"]

\* get_session(user_id): the cache it leaves, the session it returns and
\* where the session came from
get_session(sessions, db, user_id, lookup) ==
    IF user_id \in DOMAIN sessions /\ within_timeout(sessions[user_id]["timestamp"])
    THEN [sessions |-> sessions, session |-> sessions[user_id], source |-> "cache"]
    ELSE IF lookup = "ok" /\ list_records(db, user_id) # << >>
    THEN LET fields == list_records(db, user_id)[1]
             \* json.loads(...); session_data["timestamp"] = now
             session_data == ("timestamp" :> 0) @@ fields.SessionJSON
         IN [sessions |-> Put(sessions, user_id, session_data),
             session |-> session_data, source |-> "durable"]
    ELSE LET new_session == Session(NoneVal, 0)
         IN [sessions |-> Put(sessions, user_id, new_session),
             session |-> new_session, source |-> "new"]

\* a background thread as it is started: it has yet to list the records
\* (rec 0: no record found); while live it holds the dict that is in the
\* cache, afterwards the content that dict had (snapshot)
\* a delete thread is given no dict
BgThread(op, user_id) == [op |-> op, user |-> user_id, pc |-> "list", rec |-> 0,
                          live |-> (op = "save"),
                          snapshot |-> SessionJSON(Session(NoneVal, 0))]

\* set_session(user_id, agent): the session of get_session updated in place,
\* the save thread started, the session returned at once
set_session(sessions, db, user_id, agent, lookup) ==
    LET g == get_session(sessions, db, user_id, lookup)
        session == [k \in DOMAIN g.session \cup {"active_agent", "timestamp"} |->
                       IF k = "active_agent" THEN agent
                       ELSE IF k = "timestamp" THEN 0
                       ELSE g.session[k]]
    IN [sessions |-> Put(g.sessions, user_id, session), session |-> session,
        source |-> g.source, spawn |-> <<BgThread("save", user_id)>>]

\* reset_session leaving the cached session as it is
reset_session_keep(sessions, user_id) ==
    [sessions |-> sessions, spawn |-> <<BgThread("delete", user_id)>>]

\* reset_session(user_id): a new empty session in the cache, the delete
\* thread started
reset_session(sessions, user_id) ==
    [sessions |-> Put(sessions, user_id, Session(NoneVal, 0)),
     spawn |-> <<BgThread("delete", user_id)>>]

(***************************************************************************)
(* Top-level router (flows/orchestrator.py)                                *)
(***************************************************************************)
\* one way vayu_orchestrator can end
Routed(sessions, source, spawn, reply, karna, cache, pending, started) ==
    [sessions |-> sessions, source |-> source, spawn |-> spawn, reply |-> reply,
     karna |-> karna, cache |-> cache, pending |-> pending, started |-> started]

\* lines 37-44 and 55-60: the Karna handler is called inside try/except; an
\* exception leaving the handler (an outcome without reply) gets the
\* router's own error reply
Delegated(r, reply, on_error) == IF r.reply = NoneVal THEN on_error ELSE reply

\* every way vayu_orchestrator(user_id, user_name, text, image_url) can end
vayu_orchestrator(sessions, db, cache, pending, user_id, text, image_url, lookup) ==
    LET g == get_session(sessions, db, user_id, lookup)
        text_clean == Lower(Strip(text))
        active_agent == Get(g.session, "active_agent", NoneVal)
    IN IF text_clean \in {<<"h","i">>, <<"h","e","l","l","o">>, <<"h","e","y">>, <<"s","t","a","r","t">>}
       THEN LET rs == reset_session(g.sessions, user_id)
            IN {Routed(rs.sessions, g.source, rs.spawn, "vayu_greeting", NoneVal,
                       cache, pending, {})}
       ELSE IF text_clean \in {<<"e","x","i","t">>, <<"b","a","c","k">>}
       THEN LET rs == reset_session(g.sessions, user_id)
            IN {Routed(rs.sessions, g.source, rs.spawn, "vayu_welcome_back", NoneVal,
                       cache, pending, {})}
       ELSE IF active_agent = "karna"
       THEN {Routed(g.sessions, g.source, << >>,
                    Delegated(r, "karna_says", "karna_error"), r.reply,
                    r.cache, r.pending, r.started)
             : r \in handle_message(cache, pending, user_id, text_clean, image_url)}
       ELSE IF \E k \in {<<"1">>, <<"s","o","c","i","a","l"," ","m","e","d","i","a">>, <<"k","a","r","n","a">>, <<"p","o","s","t">>, <<"c","o","n","t","e","n","t">>,
                         <<"f","a","c","e","b","o","o","k">>, <<"i","n","s","t","a","g","r","a","m">>} : Contains(text_clean, k)
       THEN LET ss == set_session(g.sessions, db, user_id, "karna", lookup)
            IN {Routed(ss.sessions, g.source, ss.spawn,
                       Delegated(r, "karna_intro", "karna_unreachable"), r.reply,
                       r.cache, r.pending, r.started)
                : r \in handle_message(cache, pending, user_id, <<"m","e","n","u">>, NoneVal)}
       ELSE IF text_clean \in {<<"2">>, <<"d","i","g","i","t","a","l"," ","p","r","e","s","e","n","c","e">>}
       THEN LET ss == set_session(g.sessions, db, user_id, "digital", lookup)
            IN {Routed(ss.sessions, g.source, ss.spawn, "digital_soon", NoneVal,
                       cache, pending, {})}
       ELSE IF text_clean \in {<<"3">>, <<"l","e","a","d"," ","g","e","n","e","r","a","t","i","o","n">>}
       THEN LET ss == set_session(g.sessions, db, user_id, "leadgen", lookup)
            IN {Routed(ss.sessions, g.source, ss.spawn, "leadgen_soon", NoneVal,
                       cache, pending, {})}
       ELSE IF text_clean \in {<<"4">>, <<"e","m","a","i","l">>, <<"e","m","a","i","l"," ","c","a","m","p","a","i","g","n">>}
       THEN LET ss == set_session(g.sessions, db, user_id, "email", lookup)
            IN {Routed(ss.sessions, g.source, ss.spawn, "email_soon", NoneVal,
                       cache, pending, {})}
       ELSE {Routed(g.sessions, g.source, << >>, "vayu_menu", NoneVal,
                    cache, pending, {})}

(***************************************************************************)
(* Specification                                                           *)
(***************************************************************************)
\* the request worker is in no update_state call
Idle == [pc |-> "idle", client_id |-> NoneVal, safe_data |-> << >>, rec_id |-> 0]

\* the webhook is handling no request
NoRequest ==
    [pc |-> "idle", user |-> NoneVal, waiting |-> FALSE,
     reply |-> NoneVal, result |-> NoneVal, task |-> 0, orphan |-> 0,
     pushed |-> "not_ended"]

\* a post record as the draft flow leaves it
NewPost == [approval |-> "Pending", publish |-> "Draft"]

\* no wrapper call in progress
NoRun == [pc |-> "idle", kind |-> NoneVal, job_id |-> 0, ended |-> NoneVal]

Init ==
    /\ STATE_CACHE = << >>
    /\ PENDING_IDEAS = << >>
    /\ threads = << >>
    /\ last = [kind |-> "init", user |-> NoneVal, reply |-> NoneVal, raised |-> NoneVal]
    /\ SESSIONS = << >>
    /\ SESSION_DB = << >>
    /\ bg = EmptyBag
    /\ slast = [op |-> "init", reply |-> NoneVal, source |-> NoneVal, karna |-> NoneVal]
    /\ STATE_DB = << >>
    /\ req = Idle
    /\ hs = EmptyBag
    /\ web = NoRequest
    /\ POSTS = [p \in PostIds |-> NewPost]
    /\ platform = [p \in PostIds |-> 0]
    /\ sweeps = EmptyBag
    /\ JOBS = << >>
    /\ runs = NoRun

\* room left for worker threads
FreeIds == (1..MaxInFlight) \ DOMAIN threads

\* Thread(...).start(): the live workers in the order they were started
\* (Thread objects have no name the program reads).  What a live worker still
\* does depends on its user_id only (idea_text and image_url go to
\* karna_flow.submit_client_input, whose result is an input of the model), so
\* threads keeps the user_id; the whole argument tuple is in the handler's
\* outcome (started).
Started(args) ==
    IF args = {} THEN << >>
    ELSE << (CHOOSE a \in args : TRUE).user_id >>

\* the live workers once the one at position id has ended
Ended(live, id) ==
    SubSeq(live, 1, id - 1) \o SubSeq(live, id + 1, Len(live))

\* a user's message is handled
Message(user_id, text, image_url) ==
    \E r \in handle_message(STATE_CACHE, PENDING_IDEAS, user_id, text, image_url) :
        /\ r.started # {} => FreeIds # {}
        /\ STATE_CACHE' = r.cache
        /\ PENDING_IDEAS' = r.pending
        /\ threads' = threads \o Started(r.started)
        /\ last' = [kind |-> "message", user |-> user_id, reply |-> r.reply,
                    raised |-> r.raised]
        /\ UNCHANGED <<sessvars, storevars, racevars, webvars, pubvars, jobvars>>

\* a worker thread runs to its end
Worker(id) ==
    /\ id \in DOMAIN threads
    /\ \E r \in _async_create_post(STATE_CACHE, threads[id]) :
        /\ STATE_CACHE' = r.cache
        /\ threads' = Ended(threads, id)
        /\ last' = [kind |-> "worker", user |-> threads[id], reply |-> r.sent,
                    raised |-> r.raised]
    /\ UNCHANGED <<PENDING_IDEAS, sessvars, storevars, racevars, webvars, pubvars, jobvars>>

Next ==
    \/ \E u \in Users, text \in Texts, image \in Images : Message(u, text, image)
    \/ \E id \in 1..MaxInFlight : Worker(id)

Spec == Init /\ [][Next]_vars

(***************************************************************************)
(* Specification of the session store and the top-level router            *)
(***************************************************************************)
\* messages sent to the top-level router
OrchTexts == {<<"e","x","i","t">>, <<"h","i">>, <<"1">>}

\* the time elapsed since a cache entry was written, when the next step
\* happens: the timeout itself, one second more, a day and the timeout
Elapsed == {SESSION_TIMEOUT, SESSION_TIMEOUT + 1, DaySeconds + SESSION_TIMEOUT}

\* slast after a step that is no call of the router
Quiet == [op |-> "background", reply |-> NoneVal, source |-> NoneVal, karna |-> NoneVal]

\* the number of threads in the set S of distinct threads of the bag B
RECURSIVE Copies(_, _)
Copies(B, S) ==
    IF S = {} THEN 0
    ELSE LET th == CHOOSE x \in S : TRUE
         IN CopiesIn(th, B) + Copies(B, S \ {th})

\* a thread that held the cache dict of user_id, once that dict is replaced:
\* it keeps the old dict, with the content it had
Detached(th, user_id, old) ==
    IF th.user = user_id /\ th.live
    THEN [th EXCEPT !.live = FALSE, !.snapshot = SessionJSON(old)]
    ELSE th

\* the cache entry of user_id is a new dict
Detach(B, user_id, old) ==
    [x \in {Detached(th, user_id, old) : th \in BagToSet(B)} |->
        Copies(B, {th \in BagToSet(B) : Detached(th, user_id, old) = x})]

\* the threads of the bag B and the started ones
StartedBg(B, spawn) ==
    IF spawn = << >> THEN B ELSE B (+) SetToBag({spawn[1]})

\* a record identifier Airtable has not given out to a record or a thread
FreshRecId ==
    CHOOSE n \in 1..(2 * MaxBg + 1) :
        /\ \A i \in 1..Len(SESSION_DB) : SESSION_DB[i].id # n
        /\ \A th \in BagToSet(bg) : th.rec # n
        /\ \A m \in 1..(n - 1) :
               \/ \E i \in 1..Len(SESSION_DB) : SESSION_DB[i].id = m
               \/ \E th \in BagToSet(bg) : th.rec = m

\* the top-level router handles a message
Orchestrate(user_id, text, image_url) ==
    \E lookup \in Lookups :
    \E r \in vayu_orchestrator(SESSIONS, SESSION_DB, STATE_CACHE, PENDING_IDEAS,
                               user_id, text, image_url, lookup) :
        LET replaced == user_id \in DOMAIN SESSIONS
                        /\ (r.source # "cache"
                            \/ r.reply \in {"vayu_greeting", "vayu_welcome_back"})
            kept == IF replaced THEN Detach(bg, user_id, SESSIONS[user_id]) ELSE bg
        IN /\ r.spawn # << >> => BagCardinality(bg) < MaxBg
           /\ r.started # {} => FreeIds # {}
           /\ SESSIONS' = r.sessions
           /\ bg' = StartedBg(kept, r.spawn)
           /\ STATE_CACHE' = r.cache
           /\ PENDING_IDEAS' = r.pending
           /\ threads' = threads \o Started(r.started)
           /\ slast' = [op |-> "orchestrator", reply |-> r.reply, source |-> r.source,
                        karna |-> r.karna]
           /\ UNCHANGED <<SESSION_DB, last, storevars, racevars, webvars, pubvars, jobvars>>

\* the bag B with one thread th replaced by the thread now
Step(B, th, now) == (B (-) SetToBag({th})) (+) SetToBag({now})

\* session.py lines 82 and 100: a background thread lists the user's records
BgList(th) ==
    /\ BagIn(th, bg)
    /\ th.pc = "list"
    /\ LET recs == list_records(SESSION_DB, th.user)
       IN \/ \* the list raised: the thread logs and ends
             bg' = bg (-) SetToBag({th})
          \/ \* a delete thread that finds no record ends
             /\ recs = << >> /\ th.op = "delete"
             /\ bg' = bg (-) SetToBag({th})
          \/ /\ recs # << >> \/ th.op = "save"
             /\ bg' = Step(bg, th, [th EXCEPT !.pc = "write",
                                     !.rec = first_record(SESSION_DB, th.user)])
    /\ slast' = Quiet
    /\ UNCHANGED <<SESSIONS, SESSION_DB, STATE_CACHE, PENDING_IDEAS, threads, last, storevars, racevars, webvars, pubvars, jobvars>>

\* the row a save thread writes: the session it was given, as it is now
Payload(th) ==
    [UserID |-> th.user,
     SessionJSON |-> IF th.live THEN SessionJSON(SESSIONS[th.user]) ELSE th.snapshot]

\* session.py lines 88-92 and 103: the thread updates, creates or deletes
BgWrite(th) ==
    /\ BagIn(th, bg)
    /\ th.pc = "write"
    /\ bg' = bg (-) SetToBag({th})
    /\ \/ \* the call raised (the record is gone, or the store failed)
          SESSION_DB' = SESSION_DB
       \/ /\ th.op = "save"
          /\ th.rec # 0 => \E i \in 1..Len(SESSION_DB) : SESSION_DB[i].id = th.rec
          /\ SESSION_DB' = save_row(SESSION_DB, th.rec, Payload(th), FreshRecId)
       \/ /\ th.op = "delete"
          /\ \E i \in 1..Len(SESSION_DB) : SESSION_DB[i].id = th.rec
          /\ SESSION_DB' = delete_row(SESSION_DB, th.rec)
    /\ slast' = Quiet
    /\ UNCHANGED <<SESSIONS, STATE_CACHE, PENDING_IDEAS, threads, last, storevars, racevars, webvars, pubvars, jobvars>>

\* time passes until the cache entry of user_id was written `elapsed` ago
Advance(user_id, elapsed) ==
    /\ user_id \in DOMAIN SESSIONS
    /\ elapsed > SESSIONS[user_id]["timestamp"]
    /\ SESSIONS' = [SESSIONS EXCEPT ![user_id]["timestamp"] = elapsed]
    /\ slast' = Quiet
    /\ UNCHANGED <<SESSION_DB, bg, STATE_CACHE, PENDING_IDEAS, threads, last, storevars, racevars, webvars, pubvars, jobvars>>

\* the process restarts: the in-memory session cache and the pending drafts
\* are empty, the daemon threads are gone.  The conversation state is
\* written to its table inside update_state (whatsapp_state.py line 53) and
\* read back by get_state, so STATE_CACHE stays.
Restart ==
    /\ SESSIONS # << >>
    /\ SESSIONS' = << >>
    /\ bg' = EmptyBag
    /\ PENDING_IDEAS' = << >>
    /\ threads' = << >>
    /\ slast' = Quiet
    /\ UNCHANGED <<SESSION_DB, STATE_CACHE, last, storevars, racevars, webvars, pubvars, jobvars>>

SessNext ==
    \/ \E u \in Users, text \in OrchTexts : Orchestrate(u, text, NoneVal)
    \/ \E th \in BagToSet(bg) : BgList(th)
    \/ \E th \in BagToSet(bg) : BgWrite(th)
    \/ \E u \in Users, elapsed \in Elapsed : Advance(u, elapsed)
    \/ Restart

SessSpec == Init /\ [][SessNext]_vars


(***************************************************************************)
(* Properties                                                              *)
(***************************************************************************)
\* the conversation step of user u
LastAction(u) == Get(get_state(STATE_CACHE, u), "last_action", NoneVal)

\* the conversation state of user u
StateOf(u) == get_state(STATE_CACHE, u)

\* the decimal text of a number 0..9
Numeral(i) == <<Digits[i + 1]>>

\* idea texts of the draft scenario: free text holding no command keyword
ScenarioIdeas == {<<"P","r","o","m","o","t","e"," ","o","u","r"," ","w","e","e","k","e","n","d"," ","s","a","l","e">>, <<"B","i","g"," ","s","a","l","e">>}

\* C1: from the menu state, handling "new", then an idea text T, then
\* "done" (none with an image, no collaborator raising) leaves last_action
\* at awaiting_idea, then awaiting_image, then curating, and the only
\* worker thread started by the three calls is started by the third, with
\* idea_text = T and image_url = None.
C1_DraftFlow ==
    \A u \in Users :
        LastAction(u) = "menu" =>
        \A r1 \in handle_message(STATE_CACHE, PENDING_IDEAS, u, <<"n","e","w">>, NoneVal) :
            r1.raised = NoneVal =>
            /\ r1.cache[u]["last_action"] = "awaiting_idea"
            /\ r1.started = {}
            /\ \A T \in ScenarioIdeas :
                \A r2 \in handle_message(r1.cache, r1.pending, u, T, NoneVal) :
                    r2.raised = NoneVal =>
                    /\ r2.cache[u]["last_action"] = "awaiting_image"
                    /\ r2.started = {}
                    /\ \A r3 \in handle_message(r2.cache, r2.pending, u, <<"d","o","n","e">>, NoneVal) :
                        r3.raised = NoneVal =>
                        /\ r3.cache[u]["last_action"] = "curating"
                        /\ r3.started = {ThreadArgs(u, T, NoneVal, u)}

\* a draft flow has run to its dispatch: the user is told the draft is being
\* created, the state is curating and the worker is alive
C1_Witness ==
    \E u \in Users :
        /\ last = [kind |-> "message", user |-> u, reply |-> "creating", raised |-> NoneVal]
        /\ LastAction(u) = "curating"
        /\ \E id \in DOMAIN threads : threads[id] = u

\* C2: in state show_posts with n post_options, the numeric reply i, for
\* every i in 1..n, moves the state to post_selected with
\* last_post_id = post_options[i-1] (Python index).
C2_NumericSelection ==
    \A u \in Users :
        LastAction(u) = "show_posts" =>
        \A i \in 1..Len(Get(StateOf(u), "post_options", << >>)) :
            \A r \in handle_message(STATE_CACHE, PENDING_IDEAS, u, Numeral(i), NoneVal) :
                r.raised = NoneVal =>
                /\ r.cache[u]["last_action"] = "post_selected"
                /\ Get(r.cache[u], "last_post_id", NoneVal) = StateOf(u)["post_options"][i]

\* replies that tell the user the input was not acted on
ErrorReplies == {"bad_selection", "no_match", "no_post_selected", "not_sure", "went_wrong"}

\* C3: in state show_posts with n post_options, a numeric reply i > n
\* leaves the conversation state as it was and returns an error reply,
\* whatever the LLM fallback answers; it starts no other action.
C3_OutOfRangeSelection ==
    \A u \in Users :
        LastAction(u) = "show_posts" =>
        \A i \in (Len(Get(StateOf(u), "post_options", << >>)) + 1)..9 :
            \A r \in handle_message(STATE_CACHE, PENDING_IDEAS, u, Numeral(i), NoneVal) :
                /\ r.cache[u] = StateOf(u)
                /\ r.reply \in ErrorReplies
                /\ r.calls = << >>
                /\ r.started = {}

\* the approve-and-publish calls among the calls of an outcome
ApproveCalls(r) == SelectSeq(r.calls, LAMBDA c : c.op = "approve_and_publish_post")

\* C4: in state show_posts with n post_options, "approve i" with 1 <= i <= n
\* calls approve_and_publish_post exactly once, with post_options[i-1]
\* (Python index), and when the call returns the state is menu; "approve"
\* or "publish" without an index calls it with last_post_id and with no
\* other post.  (When the client-config fetch raises nothing is called.)
C4_Approve ==
    \A u \in Users, image \in Images :
        /\ LastAction(u) = "show_posts" =>
           \A i \in 1..Len(Get(StateOf(u), "post_options", << >>)) :
               \A r \in handle_message(STATE_CACHE, PENDING_IDEAS, u,
                                       <<"a","p","p","r","o","v","e"," ">> \o Numeral(i), image) :
                   r.raised = NoneVal =>
                   /\ Len(r.calls) = 1
                   /\ r.calls[1].op = "approve_and_publish_post"
                   /\ r.calls[1].post_id = StateOf(u)["post_options"][i]
                   /\ r.calls[1].ok => r.cache[u] = ("last_action" :> "menu")
        /\ \A text \in {<<"p","u","b","l","i","s","h">>, <<"a","p","p","r","o","v","e">>} :
               \A r \in handle_message(STATE_CACHE, PENDING_IDEAS, u, text, image) :
                   /\ r.calls = ApproveCalls(r)
                   /\ Len(r.calls) <= 1
                   /\ \A k \in 1..Len(r.calls) :
                          r.calls[k].post_id = Get(StateOf(u), "last_post_id", NoneVal)
                   /\ (r.raised = NoneVal /\ Get(StateOf(u), "last_post_id", NoneVal) # NoneVal)
                          => Len(r.calls) = 1

\* "approve i" has been handled: the user is told the post was approved and
\* the state is menu
C4_Witness ==
    \E u \in Users :
        /\ last = [kind |-> "message", user |-> u, reply |-> "approved", raised |-> NoneVal]
        /\ StateOf(u) = ("last_action" :> "menu")

\* texts that hold a modify keyword and no keyword of an earlier rule
ModifyTexts == {<<"u","p","d","a","t","e">>, <<"e","d","i","t">>, <<"c","h","a","n","g","e">>, <<"m","o","d","i","f","y">>}

\* the message after modify: the two texts of the modify scenario and two
\* texts that hold no keyword
AfterModifyTexts ==
    {<<"h","t","t","p","s",":","/","/","e","x","a","m","p","l","e",".","c","o","m","/","n","e","w",".","j","p","g">>, <<"N","e","w"," ","c","a","p","t","i","o","n"," ","t","e","x","t">>, <<"h","t","t","p",":","/","/","x","/","a",".","j","p","g">>, <<"B","i","g"," ","s","a","l","e">>}

\* a URL that ends in an image extension
IsImageUrl(text) ==
    StartsWith(Lower(Strip(text)), <<"h","t","t","p">>)
    /\ \E ext \in {<<".","j","p","g">>, <<".","p","n","g">>} : EndsWith(Lower(Strip(text)), ext)

\* C5: from post_selected with last_post_id = X a modify keyword moves the
\* state to update_pending with last_post_id = X; in update_pending with
\* last_post_id = X the next message updates only the image of X when it is
\* a URL ending in an image extension and only the caption of X otherwise,
\* and the state becomes post_selected with last_post_id = X.
C5_Modify ==
    \A u \in Users :
        /\ (LastAction(u) = "post_selected" /\ "last_post_id" \in DOMAIN StateOf(u)) =>
           \A text \in ModifyTexts :
               \A r \in handle_message(STATE_CACHE, PENDING_IDEAS, u, text, NoneVal) :
                   r.raised = NoneVal =>
                   /\ r.cache[u]["last_action"] = "update_pending"
                   /\ r.cache[u]["last_post_id"] = StateOf(u)["last_post_id"]
        /\ (LastAction(u) = "update_pending"
                /\ Get(StateOf(u), "last_post_id", NoneVal) # NoneVal) =>
           \A text \in AfterModifyTexts :
               \A r \in handle_message(STATE_CACHE, PENDING_IDEAS, u, text, NoneVal) :
                   r.raised = NoneVal =>
                   /\ Len(r.calls) = 1
                   /\ r.calls[1].op = (IF IsImageUrl(text) THEN "update_post_image_url"
                                       ELSE "update_post_caption")
                   /\ r.calls[1].post_id = StateOf(u)["last_post_id"]
                   /\ r.cache[u]["last_action"] = "post_selected"
                   /\ Get(r.cache[u], "last_post_id", NoneVal) = StateOf(u)["last_post_id"]

\* greeting and menu keywords, as typed
GreetingTexts == {<<"h","i">>, <<"h","e","l","l","o">>, <<"h","e","y">>, <<"s","t","a","r","t">>, <<"m","e","n","u">>, <<" ","H","i">>, <<"M","E","N","U"," ">>, <<"H","e","l","l","o">>}

\* C6: from every conversation state, after a greeting or menu keyword is
\* handled (with or without an image, the client-config fetch not raising)
\* the user's state is exactly last_action = menu: no post_options, no
\* idea_options, no last_post_id.
C6_GreetingResets ==
    \A u \in Users, text \in GreetingTexts, image \in Images :
        \A r \in handle_message(STATE_CACHE, PENDING_IDEAS, u, text, image) :
            r.raised = NoneVal =>
            /\ r.reply = "menu"
            /\ r.cache[u]["last_action"] = "menu"
            /\ DOMAIN r.cache[u] \cap {"post_options", "idea_options", "last_post_id"} = {}

\* a greeting has been handled: the reply is the menu and the state holds
\* nothing but last_action = menu
C6_Witness ==
    \E u \in Users :
        /\ last = [kind |-> "message", user |-> u, reply |-> "menu", raised |-> NoneVal]
        /\ StateOf(u) = ("last_action" :> "menu")

\* the (action, data) arguments of the router's and the worker's update_state
\* calls for user u
UpdateCalls(u) ==
    {<<"menu", NoData>>, <<"curating", NoData>>, <<"awaiting_image", NoData>>,
     <<"awaiting_idea", ("step" :> "awaiting_idea")>>,
     <<LastAction(u), ("last_image_url" :> "img1")>>}
    \cup {<<a, ("last_post_id" :> p)>> : a \in {"post_selected", "post_preview"}, p \in PostIds}
    \cup {<<"show_posts", ("post_options" :> l)>> : l \in Listings(TopLimit) \ {<< >>}}

InFlight(u) == {id \in DOMAIN threads : threads[id] = u}

\* C8: at most one draft worker per user is alive at any time.
C8_OneInFlight ==
    \A u \in Users : Cardinality(InFlight(u)) <= 1

\* C9: a worker that ends has pushed a message to its user, the draft or a
\* failure message, unless the push itself is what failed.
C9_WorkerReports ==
    (last.kind = "worker" /\ last.raised # "messages.create") => last.reply # NoneVal

\* C10: a pending draft exists for a user only while the user's last_action
\* is awaiting_image.
C10_PendingOnlyAwaitingImage ==
    \A u \in Users : u \in DOMAIN PENDING_IDEAS => LastAction(u) = "awaiting_image"

\* the steps that collect input from the user
CollectingSteps == {"awaiting_idea", "awaiting_image", "update_pending"}

\* texts that hold a command word and no exit or menu keyword
CommandWordTexts ==
    {<<"s","h","o","w">>, <<"s","h","o","w"," ","p","o","s","t","s"," ","t","o","d","a","y">>, <<"a","l","l">>, <<"n","e","w">>, <<"u","p","d","a","t","e">>, <<"a","p","p","r","o","v","e"," ","2">>, <<"a","n","a","l","y","t","i","c","s">>}

\* the replies that tell the user the message was taken as the payload of
\* the step: the idea, the image note, the caption or image update
PayloadReplies(step) ==
    IF step = "awaiting_idea" THEN {"got_idea"}
    ELSE IF step = "awaiting_image" THEN {"creating", "creating_with_image", "not_sure"}
    ELSE {"image_preview", "caption_preview", "image_updated", "caption_updated",
          "no_post_selected"}

\* C11: while last_action is awaiting_idea, awaiting_image or update_pending,
\* a message that is no exit or menu keyword is taken as the payload of the
\* step, whatever command words it holds: the reply is the step's reply, an
\* idea is stashed as typed, and the step does not become show_posts,
\* awaiting_idea anew or a fresh update_pending.
C11_PayloadCaptured ==
    \A u \in Users :
        LastAction(u) \in CollectingSteps =>
        \A text \in CommandWordTexts :
            \A r \in handle_message(STATE_CACHE, PENDING_IDEAS, u, text, NoneVal) :
                r.raised = NoneVal =>
                /\ r.reply \in PayloadReplies(LastAction(u))
                /\ LastAction(u) = "awaiting_idea" =>
                       /\ u \in DOMAIN r.pending
                       /\ r.pending[u]["idea_text"] = Strip(text)

\* the agent of the cached session of user u in the cache `sessions`
AgentOf(sessions, u) == Get(sessions[u], "active_agent", NoneVal)

\* the agents set_session is called with
Agents == {"karna", "digital", "leadgen", "email"}

\* the session caches a call can find: the current one, and the current
\* one with any agent just written for user u
PriorSessions(u) ==
    {SESSIONS} \cup {Put(SESSIONS, u, Session(a, 0)) : a \in Agents \cup {NoneVal}}

\* C12: for every prior session, 'exit' sent twice in a row to the top-level
\* router gets the same reply both times, and after each of the two calls the
\* cached session has active_agent = None (whatever the durable lookup
\* answers); the Karna conversation state is not touched.  The router reads
\* the caches and the table and not the background threads, and every such
\* thread can end leaving the table as it is (its call raising), so every
\* combination of caches and table is also reached with no thread alive.
C12_ExitIdempotent ==
    bg = EmptyBag =>
    \A u \in Users, l1 \in Lookups, l2 \in Lookups :
    \A prior \in PriorSessions(u) :
        \A r1 \in vayu_orchestrator(prior, SESSION_DB, STATE_CACHE, PENDING_IDEAS,
                                     u, <<"e","x","i","t">>, NoneVal, l1) :
        \A r2 \in vayu_orchestrator(r1.sessions, SESSION_DB, r1.cache, r1.pending,
                                     u, <<"e","x","i","t">>, NoneVal, l2) :
            /\ r1.reply = "vayu_welcome_back"
            /\ r2.reply = r1.reply
            /\ AgentOf(r1.sessions, u) = NoneVal
            /\ AgentOf(r2.sessions, u) = NoneVal
            /\ r1.cache = STATE_CACHE /\ r2.cache = STATE_CACHE

\* 'exit' has been handled on a session that a reset had already emptied:
\* two delete threads are alive and the cached session has no agent
C12_Witness ==
    \E u \in Users :
        /\ slast = [op |-> "orchestrator", reply |-> "vayu_welcome_back", source |-> "cache",
                    karna |-> NoneVal]
        /\ AgentOf(SESSIONS, u) = NoneVal
        /\ BagCardinality(bg) = 2
        /\ \A th \in BagToSet(bg) : th.op = "delete" /\ th.user = u

\* the caches in which the entry of user u, as set_session left it, is
\* gone (evicted, or emptied by a restart) or older than the timeout
Evicted(sessions, u) ==
    {Del(sessions, u), << >>}
    \cup {[sessions EXCEPT ![u]["timestamp"] = e] :
            e \in {SESSION_TIMEOUT + 1, 2 * SESSION_TIMEOUT, DaySeconds - 1}}

\* C13: after set_session(u, A) and the end of its save thread (list, then
\* update or create, none raising), when the cache entry of u is evicted,
\* lost in a restart or older than the timeout, get_session(u) with the
\* durable lookup answering returns active_agent = A from the durable
\* record and the cache holds that session again.
C13_RestoreAfterEviction ==
    \A u \in Users, A \in Agents, l \in Lookups :
        LET s == set_session(SESSIONS, SESSION_DB, u, A, l)
            payload == [UserID |-> u, SessionJSON |-> SessionJSON(s.sessions[u])]
            db1 == save_row(SESSION_DB, first_record(SESSION_DB, u), payload, FreshRecId)
        IN \A evicted \in Evicted(s.sessions, u) :
               LET g == get_session(evicted, db1, u, "ok")
               IN /\ g.source = "durable"
                  /\ Get(g.session, "active_agent", NoneVal) = A
                  /\ u \in DOMAIN g.sessions
                  /\ g.sessions[u] = g.session
                  /\ within_timeout(g.session["timestamp"])

\* the router has handled a message for a session it restored from the
\* durable record: the restored agent is karna and the message was delegated
C13_Witness ==
    \E u \in Users :
        /\ slast.op = "orchestrator" /\ slast.reply = "karna_says"
        /\ slast.source = "durable"
        /\ AgentOf(SESSIONS, u) = "karna"

\* C14: set_session(u, A) returns the session with active_agent = A and has
\* only started its save thread; get_session(u) at any time up to the
\* timeout later returns that session from the cache, with active_agent = A,
\* whatever the durable table holds by then (the save pending, done or
\* failed) and whatever the durable lookup would answer.  (Evaluated where
\* no background thread is alive: neither function reads the threads.)
C14_RoundTrip ==
    bg = EmptyBag =>
    \A u \in Users, A \in Agents, l1 \in Lookups, l2 \in Lookups :
        LET s == set_session(SESSIONS, SESSION_DB, u, A, l1)
            payload == [UserID |-> u, SessionJSON |-> SessionJSON(s.sessions[u])]
            saved == save_row(SESSION_DB, first_record(SESSION_DB, u), payload, FreshRecId)
        IN /\ Get(s.session, "active_agent", NoneVal) = A
           /\ s.spawn = <<BgThread("save", u)>>
           /\ \A e \in {0, 1, SESSION_TIMEOUT}, db2 \in {SESSION_DB, saved, << >>} :
                  LET g == get_session([s.sessions EXCEPT ![u]["timestamp"] = e], db2, u, l2)
                  IN /\ g.source = "cache"
                     /\ Get(g.session, "active_agent", NoneVal) = A

\* a message has been delegated to Karna on the cached session while the
\* save thread of set_session has not written yet
C14_Witness ==
    \E u \in Users :
        /\ slast.op = "orchestrator" /\ slast.reply = "karna_says"
        /\ slast.source = "cache"
        /\ AgentOf(SESSIONS, u) = "karna"
        /\ \E th \in BagToSet(bg) : th.op = "save" /\ th.live /\ th.pc = "list"
        /\ SESSION_DB = << >>

\* C15: get_session returns the cached entry without a durable lookup only
\* when the entry was written at most SESSION_TIMEOUT seconds ago; for every
\* greater age, of a day or more too, it goes to the durable table.
C15_TTLExpiry ==
    \A u \in DOMAIN SESSIONS, l \in Lookups :
        get_session(SESSIONS, SESSION_DB, u, l).source = "cache"
            => SESSIONS[u]["timestamp"] <= SESSION_TIMEOUT

\* replies that apologise for a failure
ApologyReplies == {"went_wrong", "publish_failed"}

\* an outcome in which a collaborator call raised
CallFailed(r) == r.raised # NoneVal \/ \E k \in 1..Len(r.calls) : ~r.calls[k].ok

\* C16: when a collaborator call fails while a message is handled (the
\* client-config fetch, a post update, approve-and-publish), the reply
\* apologises and the user's conversation state after the message is the
\* state before it, with or without an image attachment.
C16_FailureKeepsState ==
    \A u \in Users, text \in Texts, image \in Images :
        \A r \in handle_message(STATE_CACHE, PENDING_IDEAS, u, text, image) :
            CallFailed(r) =>
            /\ r.reply \in ApologyReplies
            /\ get_state(r.cache, u) = StateOf(u)

\* what handle_message and vayu_orchestrator are given in C17
ReplyTexts == {<<"a","p","p","r","o","v","e"," ","2">>, <<"B","i","g"," ","s","a","l","e">>, <<"s","h","o","w">>, <<"1">>, <<"e","x","i","t">>}

\* every way handle_message can end on (text, image) has a reply
Replies(cache, pending, u, text, image) ==
    LET ends == handle_message(cache, pending, u, text, image)
    IN ends # {} /\ \A r \in ends : r.reply # NoneVal

\* C17: handle_message and vayu_orchestrator end with a text reply for every
\* input and every outcome of their collaborators (record store, LLM,
\* publisher, durable session lookup): every way either of them can end has
\* a reply, and there is at least one; so has the handler on the message
\* that follows (a post list shown, then 'approve 2' with the publisher
\* failing).  Both read the caches and the table and not the threads, so they
\* are called in the states where no background write is in flight; the
\* replies of the calls made by the router's own steps are checked in every
\* state.
C17_AlwaysReplies ==
    /\ slast.op = "orchestrator" => slast.reply # NoneVal
    /\ slast.reply \in {"karna_says", "karna_intro"} => slast.karna # NoneVal
    /\ bg = EmptyBag =>
        \A u \in Users, text \in ReplyTexts, image \in Images :
            /\ Replies(STATE_CACHE, PENDING_IDEAS, u, text, image)
            /\ \A r \in handle_message(STATE_CACHE, PENDING_IDEAS, u, <<"s","h","o","w">>, NoneVal) :
                   Replies(r.cache, r.pending, u, text, image)
            /\ \A lookup \in Lookups :
                   LET ends == vayu_orchestrator(SESSIONS, SESSION_DB, STATE_CACHE,
                                                 PENDING_IDEAS, u, text, image, lookup)
                   IN ends # {} /\ \A r \in ends : r.reply # NoneVal

\* the router has delegated a message to Karna, the client-config fetch
\* raised inside the handler, and the user still got Karna's reply
C17_Witness ==
    /\ slast.op = "orchestrator"
    /\ slast.reply = "karna_says"
    /\ slast.karna = "went_wrong"

\* C18: a numeric reply i is resolved by parse_message against post_options
\* exactly when last_action is show_posts: there it is the selection of
\* post_options[i-1] for every i within the list; under any other
\* last_action it is no selection and carries no record of an option list.
C18_NumericDisambiguation ==
    \A u \in Users, i \in 1..TopLimit :
        LET state == StateOf(u)
            post_options == Get(state, "post_options", << >>)
            p == parse_message(Numeral(i), u, state)
        IN /\ (LastAction(u) = "show_posts" /\ i <= Len(post_options)) =>
                  /\ p.action = "post_selected"
                  /\ Get(p.context, "post_id", PyNone) = PyStr(post_options[i])
           /\ LastAction(u) # "show_posts" =>
                  /\ p.action # "post_selected"
                  /\ "post_id" \notin DOMAIN p.context

\* approve messages with a day token and messages without one
DatedApprovals == {<<"a","p","p","r","o","v","e"," ","2"," ","t","o","m","o","r","r","o","w">>, <<"a","p","p","r","o","v","e"," ","t","o","m","o","r","r","o","w">>, <<"a","p","p","r","o","v","e"," ","f","r","i","d","a","y">>}
PlainApprovals == {<<"a","p","p","r","o","v","e"," ","2">>, <<"a","p","p","r","o","v","e">>, <<"p","u","b","l","i","s","h">>}

\* C19: every post an approve message gets approved is marked Approved; its
\* Scheduled At is the schedule _parse_schedule_time reads from the message
\* when the message has a day token, and is not set when it has none.
C19_ScheduledApproval ==
    \A u \in Users, text \in DatedApprovals \cup PlainApprovals :
        \A r \in handle_message(STATE_CACHE, PENDING_IDEAS, u, text, NoneVal) :
            \A k \in 1..Len(ApproveCalls(r)) :
                LET fields == ApproveCalls(r)[k].fields
                    schedule_time == _parse_schedule_time(Lower(Strip(text)))
                IN /\ fields["Approval Status"] = "Approved"
                   /\ text \in DatedApprovals =>
                          Get(fields, "Scheduled At", PyNone) = schedule_time
                   /\ text \in PlainApprovals => "Scheduled At" \notin DOMAIN fields

\* approve messages with a day token and no time of day
UntimedApprovals == {<<"a","p","p","r","o","v","e"," ","t","o","m","o","r","r","o","w">>, <<"a","p","p","r","o","v","e"," ","f","r","i","d","a","y">>, <<"a","p","p","r","o","v","e"," ","2"," ","t","o","m","o","r","r","o","w">>,
                     <<"a","p","p","r","o","v","e"," ","1"," ","m","o","n","d","a","y">>}

\* the schedule parse_message puts into the context of an approve message
\* (line 62: schedule_time = WhatsAppParser._parse_schedule_time(msg))
ScheduleOf(u, text) ==
    Get(parse_message(text, u, StateOf(u)).context, "schedule_time", [t |-> "ValueError"])

\* C20: for an approve message with a day token and no time of day
\* _parse_schedule_time returns 09:00 on the day of the token, with or
\* without a post index in the message; for a message without day token it
\* returns None.
C20_ScheduleDefault ==
    \A u \in Users :
        /\ \A text \in UntimedApprovals :
               ScheduleOf(u, text)
                   = [t |-> "datetime", day |-> DateToken(text), hour |-> 9, minute |-> 0]
        /\ \A text \in PlainApprovals : ScheduleOf(u, text) = PyNone

\* C21: from every conversation state the message 'skip' or 'none' leaves
\* the state at menu, makes no call that changes a post record and starts no
\* draft task.
C21_SkipResets ==
    \A u \in Users, text \in {<<"s","k","i","p">>, <<"n","o","n","e">>} :
        \A r \in handle_message(STATE_CACHE, PENDING_IDEAS, u, text, NoneVal) :
            r.raised = NoneVal =>
            /\ r.cache[u] = ("last_action" :> "menu")
            /\ r.calls = << >>
            /\ r.started = {}

\* messages that ask for the analytics or for a summary / report
ReportTexts == {<<"a","n","a","l","y","t","i","c","s">>, <<"s","u","m","m","a","r","y">>, <<"r","e","p","o","r","t">>}

\* C22: from every conversation state a message with the analytics keyword or
\* a summary/report keyword is answered with the report and is read-only:
\* conversation state and pending draft are as before, no post record is
\* changed and no task is started.
C22_ReportsReadOnly ==
    \A u \in Users, text \in ReportTexts :
        \A r \in handle_message(STATE_CACHE, PENDING_IDEAS, u, text, NoneVal) :
            r.raised = NoneVal =>
            /\ r.reply = "analytics"
            /\ get_state(r.cache, u) = StateOf(u)
            /\ r.pending = PENDING_IDEAS
            /\ r.calls = << >>
            /\ r.started = {}

\* the states that are not collecting input
IdleSteps == {"menu", "show_posts", "post_selected", "curating"}

\* an answer of the LLM fallback that classifies nothing (lines 154, 159)
Unclassified == [action |-> "unknown", idea |-> NoneVal]

\* C23: in a state that is not collecting input, a message that no parser
\* rule matches and the LLM fallback does not classify gets the generic help
\* reply and leaves the conversation state as it was, with or without an
\* image attached.
C23_UnrecognizedKeepsState ==
    \A u \in Users, image \in Images :
        LastAction(u) \in IdleSteps =>
        \A r \in handle_answered(STATE_CACHE, PENDING_IDEAS, u, <<"B","i","g"," ","s","a","l","e">>, image,
                                 {Unclassified}) :
            r.raised = NoneVal =>
            /\ r.reply = "not_sure"
            /\ get_state(r.cache, u) = StateOf(u)

\* text bodies of a message that carries an image: empty, a note, 'done'
ImageBodies == {<< >>, <<"B","i","g"," ","s","a","l","e">>, <<"d","o","n","e">>}

\* C24: in state awaiting_image a message with an image attached, whatever
\* its text body, starts exactly one draft task with that image URL and the
\* stashed idea text, removes the pending draft and leaves the state at
\* curating.
C24_ImageDispatches ==
    \A u \in Users, text \in ImageBodies :
        (LastAction(u) = "awaiting_image" /\ u \in DOMAIN PENDING_IDEAS) =>
        \A r \in handle_message(STATE_CACHE, PENDING_IDEAS, u, text, "img1") :
            r.raised = NoneVal =>
            /\ r.started = {ThreadArgs(u, PENDING_IDEAS[u]["idea_text"], "img1", u)}
            /\ u \notin DOMAIN r.pending
            /\ r.cache[u] = ("last_action" :> "curating")

KeywordTexts == {<<" ","H","i">>, <<"h","e","l","l","o">>, <<"h","e","y">>, <<"s","t","a","r","t">>, <<"e","x","i","t">>, <<"B","a","c","k">>}
OtherTexts == {<<"2">>, <<"d","o","n","e">>, <<"B","i","g"," ","s","a","l","e">>}

\* a message that is no greeting or exit keyword was handed to the Karna
\* handler and the session is still Karna's
DelegatedToKarna(r, u) ==
    /\ r.karna # NoneVal
    /\ r.reply = "karna_says"
    /\ AgentOf(r.sessions, u) = "karna"
    /\ r.spawn = << >>

\* a greeting or exit keyword was answered by the router itself and the
\* session has no agent
ClearedByRouter(r, u) ==
    /\ r.karna = NoneVal
    /\ r.reply \in {"vayu_greeting", "vayu_welcome_back"}
    /\ AgentOf(r.sessions, u) = NoneVal
    /\ r.cache = STATE_CACHE

\* C26: when get_session gives a session with active_agent = karna, a
\* message that is no greeting and no exit keyword is handed to the Karna
\* handler and the cached session keeps active_agent = karna; a greeting or
\* exit keyword is not handed to Karna and leaves active_agent = None.
\* 'done', ' Hi' and 'exit' are sent in every reachable state; the router
\* does not read the background threads, so the other texts and the image
\* are sent in the states where no background write is in flight.
C26_KarnaDelegation ==
    \A u \in Users, lookup \in Lookups :
        LET g == get_session(SESSIONS, SESSION_DB, u, lookup)
            Sent(text, image) == vayu_orchestrator(SESSIONS, SESSION_DB, STATE_CACHE,
                                                   PENDING_IDEAS, u, text, image, lookup)
        IN Get(g.session, "active_agent", NoneVal) = "karna" =>
           /\ \A r \in Sent(<<"d","o","n","e">>, NoneVal) : DelegatedToKarna(r, u)
           /\ \A text \in {<<" ","H","i">>, <<"e","x","i","t">>} :
                  \A r \in Sent(text, NoneVal) : ClearedByRouter(r, u)
           /\ bg = EmptyBag =>
                  /\ \A text \in OtherTexts, image \in Images :
                         \A r \in Sent(text, image) : DelegatedToKarna(r, u)
                  /\ \A text \in KeywordTexts, image \in Images :
                         \A r \in Sent(text, image) : ClearedByRouter(r, u)

\* the router has handed a message to Karna and the session is still Karna's
C26_Witness ==
    \E u \in Users :
        /\ slast.op = "orchestrator"
        /\ slast.reply = "karna_says"
        /\ slast.karna = "menu"
        /\ AgentOf(SESSIONS, u) = "karna"

\* post indices an approve message can carry (one digit)
ApproveIndices == 0..(TopLimit + 1)

\* the outcome leaves everything as it was: the conversation state, the
\* pending draft, no call that changes a post, no task started
NothingDone(r, u) ==
    /\ get_state(r.cache, u) = StateOf(u)
    /\ r.pending = PENDING_IDEAS
    /\ r.calls = << >>
    /\ r.started = {}

list_states(db, client_id) == SelectSeq(db, LAMBDA row : row.ClientID = client_id)

\* recs["records"][0]["id"] when the list is not empty, 0 otherwise
first_state(db, client_id) ==
    IF list_states(db, client_id) = << >> THEN 0 ELSE list_states(db, client_id)[1].id

\* the table after airtable_client.update(BASE_ID, TABLE, rec_id, fields)
update_row(db, rec_id, fields) ==
    [i \in 1..Len(db) |->
        IF db[i].id = rec_id
        THEN [id |-> rec_id, ClientID |-> fields.ClientID, StateJSON |-> fields.StateJSON]
        ELSE db[i]]

\* the table after airtable_client.create(BASE_ID, TABLE, fields)
create_row(db, fields) ==
    Append(db, [id |-> Len(db) + 1, ClientID |-> fields.ClientID,
                StateJSON |-> fields.StateJSON])

\* the durable-store calls of _save_to_airtable, lines 68, 76 and 78
DurableCalls == {"list", "update", "create"}

\* lines 47-53 and 63-66: the request worker builds state_data, writes it to
\* the cache and calls _save_to_airtable, which copies it to safe_data and is
\* about to list the client's records
UpdateState(client_id, action, data) ==
    /\ req.pc = "idle"
    /\ STATE_CACHE' = update_state(STATE_CACHE, client_id, action, data)
    /\ req' = [pc |-> "list", client_id |-> client_id,
               safe_data |-> state_data(action, data), rec_id |-> 0]
    /\ UNCHANGED <<STATE_DB, PENDING_IDEAS, threads, last, sessvars, racevars, webvars, pubvars, jobvars>>

\* lines 68-75: the list returns and the update or the create is next, or it
\* raises and the except of line 79 logs
SaveList ==
    /\ req.pc = "list"
    /\ \/ req' = [req EXCEPT !.pc = "return"]
       \/ /\ first_state(STATE_DB, req.client_id) # 0
          /\ req' = [req EXCEPT !.pc = "update",
                                !.rec_id = first_state(STATE_DB, req.client_id)]
       \/ /\ first_state(STATE_DB, req.client_id) = 0
          /\ req' = [req EXCEPT !.pc = "create"]
    /\ UNCHANGED <<STATE_CACHE, STATE_DB, PENDING_IDEAS, threads, last, sessvars, racevars, webvars, pubvars, jobvars>>

\* lines 69-78: the update or the create writes the row, or raises and the
\* except of line 79 logs
SaveWrite ==
    /\ req.pc \in {"update", "create"}
    /\ LET fields == [ClientID |-> req.client_id, StateJSON |-> req.safe_data]
       IN \/ STATE_DB' = STATE_DB
          \/ /\ req.pc = "update"
             /\ STATE_DB' = update_row(STATE_DB, req.rec_id, fields)
          \/ /\ req.pc = "create"
             /\ STATE_DB' = create_row(STATE_DB, fields)
    /\ req' = [req EXCEPT !.pc = "return"]
    /\ UNCHANGED <<STATE_CACHE, PENDING_IDEAS, threads, last, sessvars, racevars, webvars, pubvars, jobvars>>

\* _save_to_airtable and update_state return: the request worker goes on to
\* its reply
Return ==
    /\ req.pc = "return"
    /\ req' = Idle
    /\ UNCHANGED <<STATE_CACHE, STATE_DB, PENDING_IDEAS, threads, last, sessvars, racevars, webvars, pubvars, jobvars>>

StoreNext ==
    \/ \E u \in Users : \E c \in UpdateCalls(u) : UpdateState(u, c[1], c[2])
    \/ SaveList
    \/ SaveWrite
    \/ Return

StoreSpec == Init /\ [][StoreNext]_vars

\* C29: the request worker that called update_state is never at a call of
\* the durable store: once the cache is written it is on its way to the
\* reply, and the list, update and create of _save_to_airtable are made by
\* another unit of work.
C29_ReplyNeverWaits ==
    req.pc \notin DurableCalls

\* the caches in which user u has no fresh entry: the cache as it is when
\* the entry is missing or too old, and the caches of Evicted
NotFresh(u) ==
    {c \in {SESSIONS} \cup (IF u \in DOMAIN SESSIONS THEN Evicted(SESSIONS, u) ELSE {}) :
        ~(u \in DOMAIN c /\ within_timeout(c[u]["timestamp"]))}

\* the Sessions table as it is, empty, and without the rows of user u
TablesFor(u) ==
    {SESSION_DB, << >>, SelectSeq(SESSION_DB, LAMBDA rec : rec.UserID # u)}

\* C30: when the cache holds no fresh entry of the user and the durable
\* lookup raises or finds no record, get_session returns a new session with
\* active_agent = None, written now, and the cache holds that session for the
\* user; the entries of other users are as before.
C30_FreshFallback ==
    \A u \in Users, lookup \in Lookups :
    \A c \in NotFresh(u), db \in TablesFor(u) :
        (lookup = "raise" \/ list_records(db, u) = << >>) =>
        LET g == get_session(c, db, u, lookup)
        IN /\ g.source = "new"
           /\ g.session = Session(NoneVal, 0)
           /\ u \in DOMAIN g.sessions /\ g.sessions[u] = g.session
           /\ within_timeout(g.session["timestamp"])
           /\ \A v \in DOMAIN c \ {u} : v \in DOMAIN g.sessions /\ g.sessions[v] = c[v]

\* the router has handled a message with a new session although the table
\* holds a record of the user: the cache entry was gone or too old and the
\* lookup raised
C30_Witness ==
    \E u \in Users :
        /\ slast.op = "orchestrator"
        /\ slast.source = "new"
        /\ list_records(SESSION_DB, u) # << >>

\* C36: in every reachable conversation state a non-empty post_options is
\* held only with last_action = show_posts: the state a later step writes
\* has no option list, so "approve i" is resolved against the list of the
\* show step that came last.
C36_OptionsOnlyAfterShow ==
    \A u \in DOMAIN STATE_CACHE :
        Get(StateOf(u), "post_options", << >>) # << >> => LastAction(u) = "show_posts"

\* a draft task has completed: the state it wrote is post_preview and holds
\* no option list
C36_Witness ==
    /\ last.kind = "worker"
    /\ last.reply = "draft_created"
    /\ LastAction(last.user) = "post_preview"
    /\ "post_options" \notin DOMAIN StateOf(last.user)

\* top-level messages that select Social Media
HandOffTexts == {<<"1">>, <<"S","o","c","i","a","l"," ","M","e","d","i","a">>, <<"a","p","p","r","o","v","e"," ","1">>}

\* what an earlier Karna visit can leave in a conversation state: an option
\* list, a selected post, an input-collecting step
Leftover(state) ==
    \/ DOMAIN state \cap {"post_options", "last_post_id"} # {}
    \/ Get(state, "last_action", NoneVal) \in {"awaiting_idea", "awaiting_image", "update_pending"}

\* the conversation caches an earlier Karna visit of user u can have left:
\* the current one, and the ones the update_state calls of the router and
\* the worker write
EarlierVisits(u) ==
    {STATE_CACHE} \cup {update_state(STATE_CACHE, u, c[1], c[2]) : c \in UpdateCalls(u)}

\* C38: a top-level message selecting Social Media while active_agent is not
\* karna leaves the session with active_agent = karna and the Karna state of
\* the user at last_action = menu, without post_options, last_post_id or
\* input-collecting step of an earlier visit, whatever the durable lookup
\* answers.
C38_HandOffResets ==
    \A u \in Users, lookup \in Lookups, text \in HandOffTexts :
        Get(get_session(SESSIONS, SESSION_DB, u, lookup).session,
            "active_agent", NoneVal) # "karna" =>
        \A cache \in EarlierVisits(u) :
        \A r \in vayu_orchestrator(SESSIONS, SESSION_DB, cache, PENDING_IDEAS,
                                   u, text, NoneVal, lookup) :
            /\ AgentOf(r.sessions, u) = "karna"
            /\ Leftover(get_state(cache, u)) =>
                   (~Leftover(get_state(r.cache, u))
                    /\ get_state(r.cache, u)["last_action"] = "menu")

\* the orders in which the list (L) and the write (W) of a save thread (S)
\* and of a delete thread (D) can reach the Sessions table
Interleavings ==
    {<<"SL", "SW", "DL", "DW">>, <<"SL", "DL", "SW", "DW">>, <<"SL", "DL", "DW", "SW">>,
     <<"DL", "SL", "SW", "DW">>, <<"DL", "SL", "DW", "SW">>, <<"DL", "DW", "SL", "SW">>}

\* the Sessions table after the steps of _save_to_airtable(user_id, session)
\* and _delete_from_airtable(user_id) in the given order, no call raising
\* but the update or delete of a record that is gone; found holds the record
\* each thread's list returned
RECURSIVE RunThreads(_, _, _, _, _)
RunThreads(steps, db, found, user_id, payload) ==
    IF steps = << >> THEN db
    ELSE LET rest == Tail(steps)
         IN CASE Head(steps) = "SL" ->
                   RunThreads(rest, db, [found EXCEPT !.S = first_record(db, user_id)],
                              user_id, payload)
              [] Head(steps) = "DL" ->
                   RunThreads(rest, db, [found EXCEPT !.D = first_record(db, user_id)],
                              user_id, payload)
              [] Head(steps) = "SW" ->
                   RunThreads(rest, save_row(db, found.S, payload, FreshRecId), found,
                              user_id, payload)
              [] Head(steps) = "DW" ->
                   RunThreads(rest, IF found.D = 0 THEN db ELSE delete_row(db, found.D),
                              found, user_id, payload)

\* the durable record of user u agrees with the cached session: the first
\* record holds the cached agent, and there is no record when the cached
\* session has no agent
Agrees(sessions, db, u) ==
    IF AgentOf(sessions, u) = NoneVal
    THEN list_records(db, u) = << >>
    ELSE /\ list_records(db, u) # << >>
         /\ Get(list_records(db, u)[1].SessionJSON, "active_agent", NoneVal)
                = AgentOf(sessions, u)

\* C32: after set_session(u, A) followed by reset_session(u), and after
\* reset_session(u) followed by set_session(u, A), once the save thread and
\* the delete thread have finished, in any order of their list and write
\* calls and without a call failing, the Sessions table agrees with the
\* cache: no record of u after the reset, the agent A after the set.
C32_LastWriteWins ==
    (bg = EmptyBag /\ \A u \in Users : Len(list_records(SESSION_DB, u)) <= 1) =>
    \A u \in Users, A \in Agents, order \in Interleavings :
        LET s1 == set_session(SESSIONS, SESSION_DB, u, A, "ok")
            r1 == reset_session(s1.sessions, u)
            r2 == reset_session(SESSIONS, u)
            s2 == set_session(r2.sessions, SESSION_DB, u, A, "ok")
            none == [S |-> 0, D |-> 0]
        IN /\ Agrees(r1.sessions,
                     RunThreads(order, SESSION_DB, none, u,
                                [UserID |-> u, SessionJSON |-> SessionJSON(s1.session)]), u)
           /\ Agrees(s2.sessions,
                     RunThreads(order, SESSION_DB, none, u,
                                [UserID |-> u, SessionJSON |-> SessionJSON(s2.session)]), u)

\* C33: in every reachable state each user has at most one record in the
\* Sessions table and at most one in the WhatsAppState table.
C33_OneRecordPerUser ==
    \A u \in Users :
        /\ Len(list_records(SESSION_DB, u)) <= 1
        /\ Len(list_states(STATE_DB, u)) <= 1

(***************************************************************************)
(* Specification of the Karna handler with process restarts                *)
(***************************************************************************)
\* the process restarts: PENDING_IDEAS (whatsapp_router.py line 18) and STATE
\* are empty again and the daemon workers are gone.  get_state restores the
\* state of a user from the WhatsAppState record update_state wrote
\* (whatsapp_state.py lines 28-36, 53), so the conversation states are the
\* ones before the restart; PENDING_IDEAS is kept nowhere else.
KarnaRestart ==
    /\ PENDING_IDEAS # << >> \/ threads # << >>
    /\ PENDING_IDEAS' = << >>
    /\ threads' = << >>
    /\ last' = [kind |-> "restart", user |-> NoneVal, reply |-> NoneVal, raised |-> NoneVal]
    /\ UNCHANGED <<STATE_CACHE, sessvars, storevars, racevars, webvars, pubvars, jobvars>>

RestartNext ==
    \/ \E u \in Users, text \in Texts, image \in Images : Message(u, text, image)
    \/ \E id \in 1..MaxInFlight : Worker(id)
    \/ KarnaRestart

RestartSpec == Init /\ [][RestartNext]_vars

\* C35: in every reachable state, restarts included, a user whose
\* last_action is awaiting_image has a pending draft, and "done" from that
\* user (the client-config fetch not failing) starts the draft worker and
\* leaves last_action = curating.
C35_Resumable ==
    \A u \in Users :
        LastAction(u) = "awaiting_image" =>
        /\ u \in DOMAIN PENDING_IDEAS
        /\ \A r \in handle_message(STATE_CACHE, PENDING_IDEAS, u, <<"d","o","n","e">>, NoneVal) :
               r.raised # "get_client_config" =>
               /\ r.started # {}
               /\ r.cache[u]["last_action"] = "curating"

(***************************************************************************)
(* Specification of concurrent handle_message calls in the awaiting_image  *)
(* branch (handlers/whatsapp_router.py lines 113-130 and 287-315), one     *)
(* statement that reads or writes shared data per step.  hs is the bag of  *)
(* the calls in progress or returned, each with its position and locals    *)
(***************************************************************************)
\* handle_message calls that may be in progress at the same time
MaxHandlers == 2

\* messages that dispatch the draft: "done", and an image with an empty body
Dispatching == {<<<<"d","o","n","e">>, NoneVal>>, <<<< >>, "img1">>}

\* the bag of calls once call c has moved on to d
Moved(c, d) == (hs (-) SetToBag({c})) (+) SetToBag({d})

\* del PENDING_IDEAS[user_id] as dict.pop(user_id, None): no KeyError
pop_pending(pending, user_id) ==
    [pending |-> Del(pending, user_id), raised |-> NoneVal]

\* lines 295 and 308, del PENDING_IDEAS[user_id]: KeyError when the key is
\* gone
del_pending(pending, user_id) ==
    IF user_id \in DOMAIN pending
    THEN [pending |-> Del(pending, user_id), raised |-> NoneVal]
    ELSE [pending |-> pending, raised |-> "KeyError"]

\* lines 116-126: a request thread enters handle_message, reads the state of
\* the user and finds last_action = awaiting_image and a message of the
\* branch of line 288
Enter(user_id, text, image_url) ==
    /\ BagCardinality(hs) < MaxHandlers
    /\ Get(get_state(STATE_CACHE, user_id), "last_action", NoneVal) = "awaiting_image"
    /\ text = <<"d","o","n","e">> \/ image_url # NoneVal
    /\ hs' = hs (+) SetToBag({[pc |-> IF image_url # NoneVal THEN "bookkeep"
                                      ELSE "get_pending",
                               user |-> user_id, text_clean |-> text,
                               image_url |-> image_url, pending |-> << >>,
                               reply |-> NoneVal, started |-> FALSE]})
    /\ UNCHANGED <<karnavars, sessvars, storevars, webvars, pubvars, jobvars>>

\* lines 127-129: the image bookkeeping writes the state with the
\* last_action the handler read at line 116
Bookkeep(c) ==
    /\ c.pc = "bookkeep"
    /\ STATE_CACHE' = update_state(STATE_CACHE, c.user, "awaiting_image",
                                   ("last_image_url" :> c.image_url))
    /\ hs' = Moved(c, [c EXCEPT !.pc = "get_pending"])
    /\ UNCHANGED <<PENDING_IDEAS, threads, last, sessvars, storevars, webvars, pubvars, jobvars>>

\* line 289: pending = PENDING_IDEAS.get(user_id); the local is << >> for
\* None and <<entry>> for the entry found
GetPending(c) ==
    /\ c.pc = "get_pending"
    /\ hs' = Moved(c, [c EXCEPT !.pc = "idea_text",
                                !.pending = IF c.user \in DOMAIN PENDING_IDEAS
                                            THEN <<PENDING_IDEAS[c.user]>> ELSE << >>])
    /\ UNCHANGED <<karnavars, sessvars, storevars, webvars, pubvars, jobvars>>

\* lines 293-294 and 306-307: pending.get("idea_text", "") raises
\* AttributeError when pending is None (the outer except replies);
\* otherwise update_state(user_id, "curating")
Curating(c) ==
    /\ c.pc = "idea_text"
    /\ IF c.pending = << >>
       THEN /\ hs' = Moved(c, [c EXCEPT !.pc = "return", !.reply = "went_wrong"])
            /\ UNCHANGED STATE_CACHE
       ELSE /\ STATE_CACHE' = update_state(STATE_CACHE, c.user, "curating", NoData)
            /\ hs' = Moved(c, [c EXCEPT !.pc = "del"])
    /\ UNCHANGED <<PENDING_IDEAS, threads, last, sessvars, storevars, webvars, pubvars, jobvars>>

\* lines 295 and 308: del PENDING_IDEAS[user_id]; a KeyError goes to the
\* outer except
DelPending(c) ==
    /\ c.pc = "del"
    /\ LET d == del_pending(PENDING_IDEAS, c.user)
       IN /\ PENDING_IDEAS' = d.pending
          /\ hs' = IF d.raised = NoneVal
                   THEN Moved(c, [c EXCEPT !.pc = "start"])
                   ELSE Moved(c, [c EXCEPT !.pc = "return", !.reply = "went_wrong"])
    /\ UNCHANGED <<STATE_CACHE, threads, last, sessvars, storevars, webvars, pubvars, jobvars>>

\* lines 297-302 and 310-315: the worker thread is started
StartWorker(c) ==
    /\ c.pc = "start"
    /\ FreeIds # {}
    /\ threads' = threads \o <<c.user>>
    /\ hs' = Moved(c, [c EXCEPT !.pc = "return", !.started = TRUE,
                                !.reply = IF c.text_clean = <<"d","o","n","e">> THEN "creating"
                                          ELSE "creating_with_image"])
    /\ UNCHANGED <<STATE_CACHE, PENDING_IDEAS, last, sessvars, storevars, webvars, pubvars, jobvars>>

\* the handler returns its reply
ReturnReply(c) ==
    /\ c.pc = "return"
    /\ hs' = Moved(c, [c EXCEPT !.pc = "returned"])
    /\ last' = [kind |-> "message", user |-> c.user, reply |-> c.reply,
                raised |-> NoneVal]
    /\ UNCHANGED <<STATE_CACHE, PENDING_IDEAS, threads, sessvars, storevars, webvars, pubvars, jobvars>>

\* all the calls that overlapped have returned
Forget ==
    /\ hs # EmptyBag
    /\ \A c \in BagToSet(hs) : c.pc = "returned"
    /\ hs' = EmptyBag
    /\ UNCHANGED <<karnavars, sessvars, storevars, webvars, pubvars, jobvars>>

\* a message handled while no other call is in progress
Alone(user_id, text) ==
    /\ hs = EmptyBag
    /\ Message(user_id, text, NoneVal)

RaceNext ==
    \/ \E u \in Users, text \in {<<"n","e","w">>, <<"B","i","g"," ","s","a","l","e">>} : Alone(u, text)
    \/ \E u \in Users, m \in Dispatching : Enter(u, m[1], m[2])
    \/ \E c \in BagToSet(hs) : Bookkeep(c)
    \/ \E c \in BagToSet(hs) : GetPending(c)
    \/ \E c \in BagToSet(hs) : Curating(c)
    \/ \E c \in BagToSet(hs) : DelPending(c)
    \/ \E c \in BagToSet(hs) : StartWorker(c)
    \/ \E c \in BagToSet(hs) : ReturnReply(c)
    \/ Forget
    \/ \E id \in 1..MaxInFlight : Worker(id)

RaceSpec == Init /\ [][RaceNext]_vars

\* the calls, in progress or returned, that started a worker
Dispatched == {c \in BagToSet(hs) : c.started}

\* C34: of the handle_message calls that found the user in awaiting_image
\* and overlap, at most one starts a draft worker for the stashed idea, and
\* each of the others returns a reply without starting one.
C34_OneDispatch ==
    /\ Cardinality(Dispatched) <= 1
    /\ \A c \in Dispatched : CopiesIn(c, hs) = 1
    /\ \A c \in BagToSet(hs) :
           c.pc = "returned" =>
           /\ c.reply # NoneVal
           /\ c.started <=> c.reply \in {"creating", "creating_with_image"}

\* two overlapping calls have returned: one started the worker, the other
\* replied without starting one
C34_Witness ==
    \E c, d \in BagToSet(hs) :
        /\ c.pc = "returned" /\ c.started
        /\ d.pc = "returned" /\ ~d.started /\ d.reply = "went_wrong"

(***************************************************************************)
(* Specification of the WhatsApp webhook (server/main.py lines 47-86): the *)
(* routing runs in a pool thread, the webhook waits for it at most the     *)
(* wall-clock timeout.  web is the request in progress:                    *)
(*   pc       "idle", "routing" (the pool thread has not run the router    *)
(*            yet) or "finishing" (the router has run, its thread has not  *)
(*            handed the result back)                                      *)
(*   waiting  the webhook still waits for the pool thread                  *)
(*   reply    the reply the webhook gave last                              *)
(*   result   what the router returned                                     *)
(*   task     the position in threads of the draft worker the routing of   *)
(*            this request started, 0 when it started none or it ended     *)
(*   orphan   the position in threads of a draft worker whose request      *)
(*            timed out, 0 when none is followed                           *)
(*   pushed   the message the followed worker pushed when it ended ("None" *)
(*            when it pushed none), "not_ended" before                     *)
(***************************************************************************)
\* the bodies of the messages sent to the webhook, read when the router runs
WebTexts == {<<"1">>, <<"n","e","w">>, <<"B","i","g"," ","s","a","l","e">>, <<"d","o","n","e">>}

\* the position of a worker once the worker at position id has ended
Shifted(pos, id) == IF id < pos THEN pos - 1 ELSE IF id = pos THEN 0 ELSE pos

\* a timeout that cancels the draft workers
on_timeout_cancel(live) == << >>

\* lines 81-83: except asyncio.TimeoutError logs and returns the reply; the
\* draft workers are left as they are
on_timeout(live) == live

\* lines 62-70: the webhook looks up the client and its configuration and
\* hands the routing to a pool thread
Receive(user_id) ==
    /\ web.pc = "idle"
    /\ \/ \* line 65: the number is not linked to a client
          web' = [web EXCEPT !.user = user_id, !.reply = "not_linked", !.task = 0]
       \/ \* a lookup raised: line 84
          web' = [web EXCEPT !.user = user_id, !.reply = "internal_error", !.task = 0]
       \/ web' = [web EXCEPT !.pc = "routing", !.user = user_id,
                             !.waiting = TRUE, !.reply = NoneVal, !.result = NoneVal,
                             !.task = 0]
    /\ UNCHANGED <<karnavars, sessvars, storevars, racevars, pubvars, jobvars>>

\* lines 75-77: the pool thread runs vayu_orchestrator, whether or not the
\* webhook still waits.  A worker started for a request that has timed out
\* may be followed as the orphan.
Route(text) ==
    /\ web.pc = "routing"
    /\ \E lookup \in Lookups :
       \E r \in vayu_orchestrator(SESSIONS, SESSION_DB, STATE_CACHE, PENDING_IDEAS,
                                  web.user, text, NoneVal, lookup) :
        LET replaced == web.user \in DOMAIN SESSIONS
                        /\ (r.source # "cache"
                            \/ r.reply \in {"vayu_greeting", "vayu_welcome_back"})
            kept == IF replaced THEN Detach(bg, web.user, SESSIONS[web.user]) ELSE bg
            task == IF r.started = {} THEN 0 ELSE Len(threads) + 1
        IN /\ r.spawn # << >> => BagCardinality(bg) < MaxBg
           /\ r.started # {} => FreeIds # {}
           /\ SESSIONS' = r.sessions
           /\ bg' = StartedBg(kept, r.spawn)
           /\ STATE_CACHE' = r.cache
           /\ PENDING_IDEAS' = r.pending
           /\ threads' = threads \o Started(r.started)
           /\ \E follow \in BOOLEAN :
                  web' = IF follow /\ ~web.waiting /\ web.orphan = 0 /\ task > 0
                         THEN [web EXCEPT !.pc = "finishing", !.result = r.reply,
                                          !.task = task, !.orphan = task,
                                          !.pushed = "not_ended"]
                         ELSE [web EXCEPT !.pc = "finishing", !.result = r.reply,
                                          !.task = task]
           /\ UNCHANGED <<SESSION_DB, slast, last, storevars, racevars, pubvars, jobvars>>

\* lines 74 and 81-83: the timeout passes while the webhook waits; it gives
\* the fixed reply and stops waiting.  The pool thread keeps running.
Timeout ==
    /\ web.pc \in {"routing", "finishing"}
    /\ web.waiting
    /\ threads' = on_timeout(threads)
    /\ \E follow \in BOOLEAN :
           web' = IF follow /\ web.orphan = 0 /\ web.task > 0
                  THEN [web EXCEPT !.waiting = FALSE, !.reply = "took_too_long",
                                   !.orphan = web.task, !.pushed = "not_ended"]
                  ELSE [web EXCEPT !.waiting = FALSE, !.reply = "took_too_long"]
    /\ UNCHANGED <<STATE_CACHE, PENDING_IDEAS, last, sessvars, storevars, racevars, pubvars, jobvars>>

\* lines 75-79: the pool thread hands the result back; the webhook replies
\* with it when it still waits
Respond ==
    /\ web.pc = "finishing"
    /\ web' = [web EXCEPT !.pc = "idle", !.waiting = FALSE, !.result = NoneVal,
                          !.reply = IF web.waiting THEN web.result ELSE @]
    /\ UNCHANGED <<karnavars, sessvars, storevars, racevars, pubvars, jobvars>>

\* a draft worker runs to its end
WebWorker(id) ==
    /\ id \in DOMAIN threads
    /\ \E r \in _async_create_post(STATE_CACHE, threads[id]) :
        /\ STATE_CACHE' = r.cache
        /\ threads' = Ended(threads, id)
        /\ web' = [web EXCEPT !.task = Shifted(@, id), !.orphan = Shifted(@, id),
                              !.pushed = IF id = web.orphan THEN r.sent ELSE @]
    /\ UNCHANGED <<PENDING_IDEAS, last, sessvars, storevars, racevars, pubvars, jobvars>>

WebNext ==
    \/ \E u \in Users : Receive(u)
    \/ \E text \in WebTexts : Route(text)
    \/ Timeout
    \/ Respond
    \/ \E id \in 1..MaxInFlight : WebWorker(id)
    \/ \E th \in BagToSet(bg) : BgList(th)
    \/ \E th \in BagToSet(bg) : BgWrite(th)

WebSpec == Init /\ [][WebNext]_vars

\* a started thread is scheduled until it ends: the worker started first,
\* at position 1, ends, and so in turn does each one started after it
WebFairSpec ==
    Init /\ [][WebNext]_vars /\ WF_vars(WebWorker(1))

\* C31: a request whose routing exceeds the timeout gets the fixed "took too
\* long" reply, and the draft worker its routing started is not cancelled:
\* it stays alive until it ends, and it does end.
C31_NothingCancelled ==
    /\ [](web.pc # "idle" /\ ~web.waiting => web.reply = "took_too_long")
    /\ [](web.orphan > 0 => web.orphan \in DOMAIN threads /\ web.pushed = "not_ended")
    /\ (web.orphan > 0) ~> (web.orphan = 0 /\ web.pushed # "not_ended")

\* the worker of a request that timed out has ended and has pushed its
\* follow-up message
C31_Witness ==
    /\ web.reply = "took_too_long"
    /\ web.orphan = 0
    /\ web.pushed = "draft_created"

(***************************************************************************)
(* Specification of the publishing sweeps (karna/tools/airtable_utils.py   *)
(* lines 337-399, karna/agents/publisher_agent.py lines 114-284,           *)
(* karna/flows/karna_flow.py lines 149-167):                               *)
(*   POSTS     the Posts table: post -> approval and publish status        *)
(*   platform  post -> the number of times it was published to its channel *)
(*   sweeps    the bag of publishing runs in progress, each with its       *)
(*             position, the posts it listed and has not published yet,    *)
(*             and the result of its last platform call                    *)
(***************************************************************************)
\* publishing runs in progress at the same time
MaxSweeps == 2

\* platform publishes of one post the model follows
MaxPublishes == 2

\* get_posts_ready_to_publish with the scheduled time passed: the approved
\* posts whose publish status is Draft or Queued, in table order
get_posts_ready_to_publish(posts) ==
    LET ready(p) == /\ posts[p].approval \in {"Approved", "Auto-Approved"}
                    /\ posts[p].publish \in {"Draft", "Queued"}
    IN SelectSeq(SubSeq(RecIds, 1, NumPosts), ready)

\* mark_post_published: the update of the post record
mark_post_published(posts, post_id) ==
    [posts EXCEPT ![post_id].publish = "Published"]

\* mark_post_error: the update of the post record
mark_post_error(posts, record_id) ==
    [posts EXCEPT ![record_id].publish = "Error"]

\* a publishing run is started: publish_job, publish_all, run_publishing
start_sweep == [pc |-> "list", todo |-> << >>, result |-> NoneVal]

\* the bag of runs once run s has moved on to t
Swept(s, t) == (sweeps (-) SetToBag({s})) (+) SetToBag({t})

\* karna_flow.py lines 157-167: approve_and_publish_post marks the post
\* approved and runs the publisher for the client
ApproveAndPublish(post_id) ==
    /\ BagCardinality(sweeps) < MaxSweeps
    /\ POSTS[post_id].approval # "Approved"
    /\ POSTS' = [POSTS EXCEPT ![post_id].approval = "Approved"]
    /\ sweeps' = sweeps (+) SetToBag({start_sweep})
    /\ UNCHANGED <<platform, karnavars, sessvars, storevars, racevars, webvars, jobvars>>

\* a publish job or publish-all starts a publishing run
PublishJob ==
    /\ BagCardinality(sweeps) < MaxSweeps
    /\ sweeps' = sweeps (+) SetToBag({start_sweep})
    /\ UNCHANGED <<POSTS, platform, karnavars, sessvars, storevars, racevars, webvars, jobvars>>

\* the run lists the posts ready to publish; with none it ends
SweepList(s) ==
    /\ s.pc = "list"
    /\ LET posts == get_posts_ready_to_publish(POSTS)
       IN sweeps' = IF posts = << >> THEN sweeps (-) SetToBag({s})
                    ELSE Swept(s, [s EXCEPT !.pc = "publish", !.todo = posts])
    /\ UNCHANGED <<POSTS, platform, karnavars, sessvars, storevars, racevars, webvars, jobvars>>

\* publisher_agent.py lines 186-255: publish_post calls the platform for
\* the next listed post; the call publishes the post or fails
SweepPublish(s) ==
    /\ s.pc = "publish"
    /\ platform[Head(s.todo)] < MaxPublishes
    /\ \/ /\ platform' = [platform EXCEPT ![Head(s.todo)] = @ + 1]
          /\ sweeps' = Swept(s, [s EXCEPT !.pc = "mark", !.result = "success"])
       \/ /\ platform' = platform
          /\ sweeps' = Swept(s, [s EXCEPT !.pc = "mark", !.result = "error"])
    /\ UNCHANGED <<POSTS, karnavars, sessvars, storevars, racevars, webvars, jobvars>>

\* publisher_agent.py lines 257-284: after a publish mark_post_published,
\* and mark_post_error when that update raises; after a failure
\* mark_post_error, which swallows its own failure.  Then the next post.
SweepMark(s) ==
    /\ s.pc = "mark"
    /\ LET post_id == Head(s.todo)
       IN \/ /\ s.result = "success"
             /\ POSTS' = mark_post_published(POSTS, post_id)
          \/ \* mark_post_published raised or the platform call failed:
             \* mark_post_error
             POSTS' = mark_post_error(POSTS, post_id)
          \/ \* mark_post_error failed too
             POSTS' = POSTS
    /\ sweeps' = IF Tail(s.todo) = << >> THEN sweeps (-) SetToBag({s})
                 ELSE Swept(s, [s EXCEPT !.pc = "publish", !.todo = Tail(s.todo),
                                         !.result = NoneVal])
    /\ UNCHANGED <<platform, karnavars, sessvars, storevars, racevars, webvars, jobvars>>

PubNext ==
    \/ \E p \in PostIds : ApproveAndPublish(p)
    \/ PublishJob
    \/ \E s \in BagToSet(sweeps) : SweepList(s)
    \/ \E s \in BagToSet(sweeps) : SweepPublish(s)
    \/ \E s \in BagToSet(sweeps) : SweepMark(s)

PubSpec == Init /\ [][PubNext]_vars

\* C37: no post is published to its platform more than once, whatever the
\* interleaving of the publishing runs and whatever status update fails.
C37_PublishedOnce ==
    \A p \in PostIds : platform[p] <= 1

(***************************************************************************)
(* Specification of the background job wrappers (karna/jobs/karna_jobs.py  *)
(* lines 105-134, server/main.py lines 141-155,                            *)
(* karna/tools/airtable_utils.py lines 582-635):                           *)
(*   JOBS  the Jobs table, in creation order: the type and the status of   *)
(*         each record, and whether an update of the record failed         *)
(*   runs  the wrapper call in progress: its position, the local job_id    *)
(*         (0 when the name is unbound) and how the last call ended        *)
(***************************************************************************)
\* job records the model follows
MaxJobs == 4

\* the wrappers that track their work in the Jobs table
Wrappers == {"create_posts_job", "publish_job", "full_workflow_async"}

\* create_job_record: a new record with status Queued
create_job_record(jobs, job_type) ==
    Append(jobs, [type |-> job_type, status |-> "Queued", lost |-> FALSE])

\* update_job_status with the update succeeding
update_job_status(jobs, job_id, status) ==
    [jobs EXCEPT ![job_id].status = status]

\* update_job_status with the update raising: the except of line 634 prints
update_job_status_failed(jobs, job_id) ==
    [jobs EXCEPT ![job_id].lost = TRUE]

\* karna_jobs.py lines 108-112 and 124-127, main.py line 144: the wrapper
\* creates its job record(s) and binds job_id.  create_posts_job creates a
\* record at line 108 and, for a valid client_id, a second one at line 112;
\* publish_job creates none for an invalid client_id and leaves job_id
\* unbound.
StartJob(kind, valid) ==
    /\ runs.pc = "idle"
    /\ Len(JOBS) + 2 <= MaxJobs
    /\ LET job_type == IF kind = "create_posts_job" THEN "create_posts"
                       ELSE IF kind = "publish_job" THEN "publish_posts"
                       ELSE "full_workflow"
           once == create_job_record(JOBS, job_type)
           twice == create_job_record(once, job_type)
       IN IF kind = "create_posts_job" /\ valid
          THEN /\ JOBS' = twice
               /\ runs' = [pc |-> "running", kind |-> kind, job_id |-> Len(twice),
                           ended |-> NoneVal]
          ELSE IF kind = "publish_job" /\ ~valid
          THEN /\ JOBS' = JOBS
               /\ runs' = [pc |-> "running", kind |-> kind, job_id |-> 0,
                           ended |-> NoneVal]
          ELSE /\ JOBS' = once
               /\ runs' = [pc |-> "running", kind |-> kind, job_id |-> Len(once),
                           ended |-> NoneVal]
    /\ UNCHANGED <<karnavars, sessvars, storevars, racevars, webvars, pubvars>>

\* lines 114 and 129, main.py line 147: update_job_status(job_id,
\* "Running").  With job_id unbound the statement raises UnboundLocalError,
\* and so does the update_job_status(job_id, "Failed", ...) of the except
\* clause: the exception leaves the wrapper.
MarkRunning ==
    /\ runs.pc = "running"
    /\ IF runs.job_id = 0
       THEN /\ runs' = [runs EXCEPT !.pc = "idle", !.ended = "UnboundLocalError"]
            /\ JOBS' = JOBS
       ELSE /\ runs' = [runs EXCEPT !.pc = "work"]
            /\ \/ JOBS' = update_job_status(JOBS, runs.job_id, "Running")
               \/ JOBS' = update_job_status_failed(JOBS, runs.job_id)
    /\ UNCHANGED <<karnavars, sessvars, storevars, racevars, webvars, pubvars>>

\* lines 115-120, 130-134, main.py lines 148-152: the flow runs; the wrapper
\* records Completed, or Failed when the flow raised, and returns
Work ==
    /\ runs.pc = "work"
    /\ \E status \in {"Completed", "Failed"} :
           \/ JOBS' = update_job_status(JOBS, runs.job_id, status)
           \/ JOBS' = update_job_status_failed(JOBS, runs.job_id)
    /\ runs' = [runs EXCEPT !.pc = "idle", !.ended = "returned"]
    /\ UNCHANGED <<karnavars, sessvars, storevars, racevars, webvars, pubvars>>

JobNext ==
    \/ \E kind \in Wrappers, valid \in BOOLEAN : StartJob(kind, valid)
    \/ MarkRunning
    \/ Work

JobSpec == Init /\ [][JobNext]_vars

\* C40: once a wrapper has returned, every job record whose status updates
\* all went through is Completed or Failed, none is left Queued or Running,
\* and no wrapper call ends with an uncaught exception.
C40_JobLifecycle ==
    runs.pc = "idle" =>
    /\ runs.ended \in {NoneVal, "returned"}
    /\ \A i \in 1..Len(JOBS) : ~JOBS[i].lost => JOBS[i].status \in {"Completed", "Failed"}

(***************************************************************************)
(* Specification of two users' messages interleaved: the top-level router, *)
(* the Karna handler it calls, the draft workers and the session threads   *)
(***************************************************************************)
\* the two users: u1 writes to the Karna handler, u2 to the top-level router
IsoUsers == {"u1", "u2"}

\* the bodies of the messages of each user
IsoTexts ==
    [u \in IsoUsers |-> IF u = "u1" THEN {<<"n","e","w">>, <<"B","i","g"," ","s","a","l","e">>, <<"d","o","n","e">>}
                        ELSE {<<"1">>, <<"n","e","w">>}]

\* handle_message handles a message of user_id
IsoKarna(user_id, text) ==
    \E r \in handle_message(STATE_CACHE, PENDING_IDEAS, user_id, text, NoneVal) :
        /\ r.started # {} => FreeIds # {}
        /\ STATE_CACHE' = r.cache
        /\ PENDING_IDEAS' = r.pending
        /\ threads' = threads \o Started(r.started)
        /\ UNCHANGED <<last, sessvars, storevars, racevars, webvars, pubvars, jobvars>>

\* vayu_orchestrator handles a message of user_id
IsoMessage(user_id, text) ==
    \E lookup \in Lookups :
    \E r \in vayu_orchestrator(SESSIONS, SESSION_DB, STATE_CACHE, PENDING_IDEAS,
                               user_id, text, NoneVal, lookup) :
        LET replaced == user_id \in DOMAIN SESSIONS
                        /\ (r.source # "cache"
                            \/ r.reply \in {"vayu_greeting", "vayu_welcome_back"})
            kept == IF replaced THEN Detach(bg, user_id, SESSIONS[user_id]) ELSE bg
        IN /\ r.spawn # << >> => BagCardinality(bg) < MaxBg
           /\ r.started # {} => FreeIds # {}
           /\ SESSIONS' = r.sessions
           /\ bg' = StartedBg(kept, r.spawn)
           /\ STATE_CACHE' = r.cache
           /\ PENDING_IDEAS' = r.pending
           /\ threads' = threads \o Started(r.started)
           /\ UNCHANGED <<SESSION_DB, slast, last, storevars, racevars, webvars, pubvars, jobvars>>

\* a draft worker runs to its end
IsoWorker(id) ==
    /\ id \in DOMAIN threads
    /\ \E r \in _async_create_post(STATE_CACHE, threads[id]) :
        /\ STATE_CACHE' = r.cache
        /\ threads' = Ended(threads, id)
    /\ UNCHANGED <<PENDING_IDEAS, last, sessvars, storevars, racevars, webvars, pubvars, jobvars>>

IsoNext ==
    \/ \E text \in IsoTexts["u1"] : IsoKarna("u1", text)
    \/ \E text \in IsoTexts["u2"] : IsoMessage("u2", text)
    \/ \E id \in 1..MaxInFlight : IsoWorker(id)
    \/ \E th \in BagToSet(bg) : BgList(th)
    \/ \E th \in BagToSet(bg) : BgWrite(th)

IsoSpec == Init /\ [][IsoNext]_vars

\* the entry of key k in the dict d: << >> without one
Entry(d, k) == IF k \in DOMAIN d THEN <<d[k]>> ELSE << >>

\* the bodies a message of user u is checked with: the ones the users send
\* and "exit", which resets the session
CheckedTexts == IsoTexts["u1"] \cup IsoTexts["u2"] \cup {<<"e","x","i","t">>}

\* vayu_orchestrator (and handle_message under it) for a message of user u
\* leaves what is cached for user v as it is, and starts threads for u only
MessageKeeps(u, v) ==
    \A text \in CheckedTexts, lookup \in Lookups :
    \A r \in vayu_orchestrator(SESSIONS, SESSION_DB, STATE_CACHE, PENDING_IDEAS,
                               u, text, NoneVal, lookup) :
        /\ Entry(r.sessions, v) = Entry(SESSIONS, v)
        /\ Entry(r.cache, v) = Entry(STATE_CACHE, v)
        /\ Entry(r.pending, v) = Entry(PENDING_IDEAS, v)
        /\ r.spawn # << >> => r.spawn[1].user = u
        /\ \A a \in r.started : a.user_id = u

\* handle_message for a message of user u leaves the conversation state and
\* the pending draft of user v as they are, and starts a worker for u only
KarnaKeeps(u, v) ==
    \A text \in CheckedTexts :
    \A r \in handle_message(STATE_CACHE, PENDING_IDEAS, u, text, NoneVal) :
        /\ Entry(r.cache, v) = Entry(STATE_CACHE, v)
        /\ Entry(r.pending, v) = Entry(PENDING_IDEAS, v)
        /\ \A a \in r.started : a.user_id = u

\* the draft worker of user u leaves the conversation state of user v as it
\* is
WorkerKeeps(u, v) ==
    \A r \in _async_create_post(STATE_CACHE, u) :
        Entry(r.cache, v) = Entry(STATE_CACHE, v)

\* the write of a save or delete thread of user u's session, and the delete
\* a reset_session(u) leads to, leave the Sessions records of user v as they
\* are
ThreadsKeep(u, v) ==
    /\ \A th \in BagToSet(bg) :
           th.user = u /\ th.pc = "write" =>
           /\ th.op = "save" =>
              list_records(save_row(SESSION_DB, th.rec, Payload(th), FreshRecId), v)
                  = list_records(SESSION_DB, v)
           /\ th.op = "delete" =>
              list_records(delete_row(SESSION_DB, th.rec), v) = list_records(SESSION_DB, v)
    /\ list_records(delete_row(SESSION_DB, first_record(SESSION_DB, u)), v)
           = list_records(SESSION_DB, v)

\* C39: in every state the interleaved messages of two users reach, what is
\* done for user u (its message in vayu_orchestrator and handle_message,
\* its draft worker, its session save and delete threads) changes neither
\* the cached nor the durable session, nor the conversation state, nor the
\* pending draft of any other user v.
C39_Isolation ==
    \A u \in IsoUsers : \A v \in IsoUsers \ {u} :
        /\ MessageKeeps(u, v)
        /\ KarnaKeeps(u, v)
        /\ WorkerKeeps(u, v)
        /\ ThreadsKeep(u, v)

\* a draft worker of u1 is running and u1 has stashed its next idea, while
\* u2 has a Karna session with its record saved and a conversation waiting
\* for an idea
C39_Witness ==
    /\ "u1" \in DOMAIN STATE_CACHE /\ "u2" \in DOMAIN STATE_CACHE
    /\ LastAction("u1") = "awaiting_image"
    /\ "u1" \in DOMAIN PENDING_IDEAS
    /\ "u2" \in DOMAIN SESSIONS /\ AgentOf(SESSIONS, "u2") = "karna"
    /\ list_records(SESSION_DB, "u2") # << >>
    /\ LastAction("u2") = "awaiting_idea"
    /\ "u2" \notin DOMAIN PENDING_IDEAS
    /\ "u1" \notin DOMAIN SESSIONS
    /\ threads # << >>

====
